---- MODULE Spec2Model ----
(***************************************************************************)
(* The cache-coordinated refresh pipeline of the dashboard (src/src/main.rs *)
(* with cache.rs, geocode.rs, weather.rs, news.rs): the presentation       *)
(* thread runs the refresh handlers and the closures queued by ui(); the   *)
(* worker pool runs one spawned task per refresh.                          *)
(***************************************************************************)
EXTENDS Integers, Sequences, FiniteSets, TLC

\* ------------------------------------------------------------------ bounds
MaxRefresh == 2     \* refresh triggers in one run, overlapping at will
MaxSeqRefresh == 1  \* refresh triggers in one run, one at a time
MaxLiveRefresh == 1 \* refresh triggers in one run checked for progress
MaxDownRefresh == 1 \* refresh triggers in one run that ends with the window dropped
MaxRows    == 1     \* rows in one network response
MaxSent    == 5     \* closures queued before the last account event of a run
MaxAcctRefresh == 2 \* refreshes spawned in one run with account events
TickSecs   == 600   \* seconds per advance of the clock
MaxCount   == 3     \* the count passed to fetch_news in an enrichment run
MaxHits    == 4     \* hits in one search response of an enrichment run
MaxCalls   == 1     \* handlers the presentation thread runs in a run with the lock
MaxTicks   == 1     \* ticks of the clock task in a run with the lock
MaxStoreRows == 2   \* rows of a record written to a cache file
MaxReadRefresh == 1 \* refreshes over a cache file an earlier run left behind
MaxSeries  == 24    \* entries of the hourly series of a forecast response
MaxWindow  == 8     \* entries the forecast stage is asked for
MaxCredSent == 3    \* closures queued before the last account deletion of a run
MaxNavSent == 3     \* closures queued before the last navigation of a run

\* ------------------------------------------------------- program constants
TTL == 900          \* 15 * 60, the canonical freshness window in seconds

Domains == {"weather", "news"}
\* user names: the implicit guest, a registered name, and the empty name
Users   == {"guest", "ana", ""}
Pages   == {"Weather", "News", "Settings"}

\* strings with case are sequences of characters
Bucharest == <<"B", "u", "c", "h", "a", "r", "e", "s", "t">>
Cluj      == <<"c", "l", "u", "j">>
TopStories == "Top Stories"
bucharest == <<"b", "u", "c", "h", "a", "r", "e", "s", "t">>
Cities == {Bucharest, Cluj}
Topics == {TopStories, "rust"}

VARIABLES
  now,     \* the wall clock, seconds (Utc::now().timestamp())
  state,   \* AppState behind the mutex
  app,     \* the properties of MainWindow the handlers read and write
  files,   \* the cache files, per user and domain
  tasks,   \* the spawned refresh tasks, in spawn order
  queue,   \* closures handed to invoke_from_event_loop, oldest first
  log,     \* per domain, the writes made to the view, oldest first
  nsent,   \* the number of closures handed to invoke_from_event_loop so far
  alive,   \* the MainWindow still exists (Weak::upgrade returns Some)
  users_file,    \* users.json: the registered user names
  config_files,  \* users/<user>/config.json, per user
  mutex,   \* the holder of the AppState mutex, or "free"
  threads, \* where each thread that touches AppState stands
  fetch,   \* one call of fetch_news: the hits, the futures, the output
  probe,   \* one call of is_fresh / age_minutes: arguments and result
  disk,    \* one cache file as its bytes, with a writer and a reader of it
  resp     \* the response of a network service and what its stage makes of it

vars == <<now, state, app, files, tasks, queue, log, nsent, alive,
          users_file, config_files, mutex, threads, fetch, probe, disk, resp>>

\* the variables the refresh pipeline never writes
rest == <<alive, users_file, config_files, mutex, threads, fetch, probe, disk, resp>>

\* ----------------------------------------------------------------- strings
LowerChar(c) ==
  CASE c = "B" -> "b"
    [] c = "C" -> "c"
    [] OTHER -> c

to_lowercase(s) == [i \in DOMAIN s |-> LowerChar(s[i])]

starts_with(s, p) == Len(s) >= Len(p) /\ SubSeq(s, 1, Len(p)) = p

Max(a, b) == IF a >= b THEN a ELSE b

\* i64::saturating_sub at the width of the model's integers: 16 bits, so that
\* a difference beyond the width can be computed before it is saturated
IntMax == 2^15 - 1
IntMin == -IntMax - 1
saturating_sub(a, b) ==
  LET d == a - b
  IN  IF d > IntMax THEN IntMax ELSE IF d < IntMin THEN IntMin ELSE d

\* Rust's integer division truncates toward zero
TruncDiv(a, b) == IF a >= 0 THEN a \div b ELSE -((-a) \div b)

\* ------------------------------------------------------------------ cache
is_fresh_at(t, ts, ttl_secs) == saturating_sub(t, ts) <= ttl_secs
is_fresh(ts, ttl_secs) == is_fresh_at(now, ts, ttl_secs)

age_minutes(ts) == Max(TruncDiv(saturating_sub(now, ts), 60), 0)

Absent  == [kind |-> "absent"]
Corrupt == [kind |-> "corrupt"]

WeatherRow(r) == [time |-> r.time, temp |-> r.temp, summary |-> r.summary]
NewsRow(r) ==
  [title |-> r.title, source |-> r.source, published |-> r.published, url |-> r.url]

WeatherCache(ts, rows, units, city) ==
  [kind |-> "weather", ts |-> ts, units |-> units, city |-> to_lowercase(city),
   rows |-> [i \in DOMAIN rows |-> WeatherRow(rows[i])]]

NewsCache(ts, rows) ==
  [kind |-> "news", ts |-> ts, rows |-> [i \in DOMAIN rows |-> NewsRow(rows[i])]]

\* Option<WeatherCache>: <<>> is None, <<c>> is Some(c)
load_weather_for(user) ==
  IF files[user].weather.kind = "weather" THEN <<files[user].weather>> ELSE <<>>

load_news_for(user) ==
  IF files[user].news.kind = "news" THEN <<files[user].news>> ELSE <<>>

\* ---------------------------------------------------------------- AppState
current_user_of(s) == IF s.current_user = <<>> THEN "guest" ELSE s.current_user[1]
current_user == current_user_of(state)

\* ------------------------------------------------------------ status texts
\* A text is the sequence of its pieces; the non-ASCII characters of the
\* source's literals are written by code point.
Ellipsis == "<U+2026>"
Bullet   == "<U+2022>"
Degree   == "<U+00B0>"

Glyph(use_celsius) == IF use_celsius THEN <<Degree, "C">> ELSE <<Degree, "F">>
Want(use_celsius)  == IF use_celsius THEN "C" ELSE "F"

Loading == <<"Loading", Ellipsis>>

weather_cached_status(use_celsius, ts) ==
  <<"Cached", " (">> \o Glyph(use_celsius)
    \o <<") ", Bullet, " updated ", ToString(age_minutes(ts)), "m ago">>

news_cached_status(ts) ==
  <<"Cached", " ", Bullet, " updated ", ToString(age_minutes(ts)), "m ago">>

weather_updated_status(use_celsius) == <<"Updated", " (">> \o Glyph(use_celsius) \o <<")">>

news_updated_status == <<>>

loading_label_status(label) == <<"Loading", Ellipsis, " (">> \o label \o <<")">>

not_found_status(city) == <<"City not found: ">> \o city

OfflinePrefix == <<"Offline ", Bullet, " ">>

\* mutant: the failure always degrades the text on screen
failure_status_always_offline(s, err) == OfflinePrefix \o s

\* mutant: the prefix is added whenever the status mentions the cache
failure_status_if_cached_anywhere(s, err) ==
  IF \E i \in DOMAIN s : s[i] = "Cached" THEN OfflinePrefix \o s
  ELSE <<"Failed to load: ", err>>

\* the Err branch of a completed fetch, run on the presentation thread
failure_status(s, err) ==
  IF starts_with(s, <<"Cached">>) THEN OfflinePrefix \o s
  ELSE <<"Failed to load: ", err>>

\* ------------------------------------------------------------- view models
WeatherItem(r) == [time |-> r.time, temp |-> r.temp, summary |-> r.summary]
ArticleItem(r) ==
  [title |-> r.title, source |-> r.source, published |-> r.published, url |-> r.url]

weather_items_of(rows) == [i \in DOMAIN rows |-> WeatherItem(rows[i])]
news_items_of(rows)    == [i \in DOMAIN rows |-> ArticleItem(rows[i])]

\* ------------------------------------------------------- external services
\* the first result of the location search for a query
GeoItem(city) ==
  IF to_lowercase(city) = bucharest
  THEN [name |-> "Bucharest", admin1 |-> "", country |-> "Romania"]
  ELSE [name |-> "Cluj-Napoca", admin1 |-> "Cluj County", country |-> "Romania"]

\* the separator as the source file spells it: U+00E2 U+20AC U+201D
GeoDash == "<U+00E2><U+20AC><U+201D>"

geocode_label(item) ==
  IF item.country = "" THEN <<item.name>>
  ELSE IF item.admin1 = "" THEN <<item.name, " (", item.country, ")">>
  ELSE <<item.name, " ", GeoDash, " ", item.admin1, ", ", item.country>>

\* an hourly forecast as the resolver returns it: n rows, the first labelled Now
ForecastRows(n, use_celsius, stamp) ==
  [i \in 1..n |->
     [time |-> IF i = 1 THEN "Now" ELSE ToString(i),
      temp |-> Want(use_celsius), summary |-> "at " \o ToString(stamp)]]

\* the enriched result of a topic search: n articles found for the topic
NewsRows(n, topic, stamp) ==
  [i \in 1..n |->
     [title |-> topic, source |-> "a.org", published |-> ToString(stamp),
      url |-> "a.org/" \o ToString(i),
      thumbnail |-> "placeholder"]]

WeatherErrors == {"Http", "Json", "Io"}
NewsErrors    == {"Http", "Json"}

\* ------------------------------------------------------------ initial state
\* the AppState main() builds
NewAppState ==
  [is_logged_in |-> FALSE, current_page |-> "Weather", current_user |-> <<"guest">>,
   clock_text |-> <<"12:34:56">>]

DefaultApp ==
  [weather_status |-> <<>>, weather_items |-> <<>>,
   news_status |-> <<>>, news_items |-> <<>>,
   weather_city |-> Bucharest, use_celsius |-> TRUE, news_topic |-> TopStories,
   is_logged_in |-> FALSE, current_page |-> "Weather", current_user |-> "guest",
   users |-> <<>>,
   clock_text |-> <<"12:34:56">>, login_error_text |-> <<>>]

\* cache files an earlier run of the program left behind
OldWeather == WeatherCache(0, ForecastRows(1, TRUE, 0), "C", Bucharest)
OldNews    == NewsCache(0, NewsRows(1, TopStories, 0))

\* a user with no cache files
NoCache == [weather |-> Absent, news |-> Absent]

\* the threads that touch AppState: the presentation thread, the clock task
\* and the task a login spawns
Threads == {"ui", "clock", "login"}

\* pc: where the thread stands; h: the handler it runs; op, arg: the AppState
\* access it is making; val: what current_user() returned; n: calls so far
Thread(pc) == [pc |-> pc, h |-> "", op |-> "", arg |-> <<>>, val |-> <<>>, n |-> 0]

\* the presentation thread between handlers, the clock task waiting for its
\* first tick, no login task
IdleThreads ==
  [t \in Threads |->
     Thread(IF t = "ui" THEN "idle" ELSE IF t = "clock" THEN "tick" ELSE "none")]

\* no article search is being enriched
NoFetch == [stage |-> "idle", found |-> 0, count |-> 0, hits |-> <<>>,
            futures |-> {}, failed |-> {}, out |-> <<>>]

\* no response of a service under study
NoResp == [svc |-> "none", called |-> FALSE]

\* a cache file that does not exist, with nobody writing or reading it
NoDisk == [dom |-> "weather", file |-> [kind |-> "missing"], was |-> <<>>,
           w |-> <<>>, text |-> <<>>, wpc |-> "idle", res |-> "",
           rpc |-> "idle", rat |-> "", got |-> <<>>]

\* is_fresh has not been called
NoProbe == [ts |-> 0, ttl |-> 0, called |-> FALSE, fresh |-> FALSE,
            asked |-> FALSE, age |-> 0]

Init ==
  /\ now = 0
  /\ state = NewAppState
  /\ app = DefaultApp
  /\ files \in {f \in [Users -> [weather : {Absent, OldWeather}, news : {Absent, OldNews}]] :
                 \A u \in Users \ {"guest"} : f[u] = NoCache}
  /\ tasks = <<>>
  /\ queue = <<>>
  /\ log = [d \in Domains |-> <<>>]
  /\ nsent = 0
  /\ alive = TRUE
  /\ users_file = <<>>
  /\ config_files = [u \in Users |-> Absent]
  /\ mutex = "free"
  /\ threads = IdleThreads
  /\ fetch = NoFetch
  /\ probe = NoProbe
  /\ disk = NoDisk
  /\ resp = NoResp

\* ------------------------------------------------- refresh handlers (UI thread)
\* mutant: the units of the record are not compared
weather_cache_match_any_units(c, city, use_celsius) ==
  /\ is_fresh(c.ts, TTL)
  /\ c.city = to_lowercase(city)

weather_cache_match(c, city, use_celsius) ==
  /\ is_fresh(c.ts, TTL)
  /\ c.units = Want(use_celsius)
  /\ c.city = to_lowercase(city)

news_cache_match(c, topic) == is_fresh(c.ts, TTL)

\* the rows the cache check of a weather refresh renders, as Option
weather_cache_hit(user, city, use_celsius) ==
  LET o == load_weather_for(user)
  IN  IF o # <<>> /\ weather_cache_match(o[1], city, use_celsius) THEN o ELSE <<>>

news_cache_hit(user, topic) ==
  LET o == load_news_for(user)
  IN  IF o # <<>> /\ news_cache_match(o[1], topic) THEN o ELSE <<>>

Task(dom, user, city, use_celsius, topic, hit) ==
  [dom |-> dom, pc |-> IF dom = "weather" THEN "geocode" ELSE "search",
   user |-> user, city |-> city, use_celsius |-> use_celsius, topic |-> topic,
   rows |-> <<>>, ts |-> 0, saved |-> "no",
   hit |-> hit # <<>>, cached |-> IF hit # <<>> THEN hit[1].rows ELSE <<>>]

\* h.spawn of the network task, after the cache check whatever it found
spawn_weather(ts, user, city, use_celsius, hit) ==
  Append(ts, Task("weather", user, city, use_celsius, "", hit))

\* mutant: a cache hit ends the refresh
spawn_news_unless_cached(ts, user, topic, hit) ==
  IF hit # <<>> THEN ts ELSE Append(ts, Task("news", user, <<>>, TRUE, topic, hit))

spawn_news(ts, user, topic, hit) ==
  Append(ts, Task("news", user, <<>>, TRUE, topic, hit))

\* the window after the synchronous part of the weather handler
refresh_weather_app(a, user) ==
  LET hit == weather_cache_hit(user, a.weather_city, a.use_celsius)
      a1 == [a EXCEPT !.weather_status = Loading]
  IN  IF hit = <<>> THEN a1
      ELSE [a1 EXCEPT !.weather_items = weather_items_of(hit[1].rows),
                      !.weather_status = weather_cached_status(a.use_celsius, hit[1].ts)]

on_refresh_weather ==
  /\ LET user == current_user
         city == app.weather_city
         use_celsius == app.use_celsius
         hit == weather_cache_hit(user, city, use_celsius)
     IN  /\ app' = refresh_weather_app(app, user)
         /\ tasks' = spawn_weather(tasks, user, city, use_celsius, hit)
         /\ log' = [log EXCEPT !.weather =
                      Append(@, [rid |-> Len(tasks) + 1,
                                 kind |-> IF hit = <<>> THEN "miss" ELSE "cache"])]
  /\ UNCHANGED <<now, state, files, queue, nsent, rest>>

\* mutant: the handler spawns the fetch and leaves the cached rows unrendered
on_refresh_news_no_render ==
  /\ LET user == current_user
         topic == app.news_topic
         hit == news_cache_hit(user, topic)
     IN  /\ app' = [app EXCEPT !.news_status = Loading]
         /\ tasks' = Append(tasks, Task("news", user, <<>>, TRUE, topic, hit))
         /\ log' = [log EXCEPT !.news =
                      Append(@, [rid |-> Len(tasks) + 1, kind |-> "miss"])]
  /\ UNCHANGED <<now, state, files, queue, nsent, rest>>

\* the window after the synchronous part of the news handler
refresh_news_app(a, user) ==
  LET hit == news_cache_hit(user, a.news_topic)
      a1 == [a EXCEPT !.news_status = Loading]
  IN  IF hit = <<>> THEN a1
      ELSE [a1 EXCEPT !.news_items = news_items_of(hit[1].rows),
                      !.news_status = news_cached_status(hit[1].ts)]

on_refresh_news ==
  /\ LET user == current_user
         topic == app.news_topic
         hit == news_cache_hit(user, topic)
     IN  /\ app' = refresh_news_app(app, user)
         /\ tasks' = spawn_news(tasks, user, topic, hit)
         /\ log' = [log EXCEPT !.news =
                      Append(@, [rid |-> Len(tasks) + 1,
                                 kind |-> IF hit = <<>> THEN "miss" ELSE "cache"])]
  /\ UNCHANGED <<now, state, files, queue, nsent, rest>>

\* ------------------------------------------------------- ui(): the queue
\* AppConfig::default()
DefaultConfig == [city |-> Bucharest, news_topic |-> TopStories, units_celsius |-> TRUE]

Closure(seq, rid, dom, kind, text, rows, use_celsius) ==
  [seq |-> seq, rid |-> rid, dom |-> dom, kind |-> kind, text |-> text, rows |-> rows,
   use_celsius |-> use_celsius, cfg |-> DefaultConfig]

\* invoke_from_event_loop: the closure joins the end of the event-loop queue
ui(q, c) == Append(q, c)

Post(r, kind, text, rows) ==
  /\ queue' = ui(queue, Closure(nsent + 1, r, tasks[r].dom, kind, text, rows,
                                tasks[r].use_celsius))
  /\ nsent' = nsent + 1

\* a closure queued by one of the account handlers
AcctClosure(seq, kind, text, cfg) ==
  [Closure(seq, 0, "acct", kind, text, <<>>, TRUE) EXCEPT !.cfg = cfg]

\* ------------------------------------------------------------ config store
\* the components a user name adds to a path: joining the empty name adds none
name_components(user) == IF user = "" THEN <<>> ELSE <<user>>

users_base_dir == <<"users">>

user_root(user) == users_base_dir \o name_components(user)

config_path_for(user) == user_root(user) \o <<"config.json">>

ConfigFile(cfg) == [kind |-> "config", cfg |-> cfg]

load_config_for(cf, user) ==
  IF cf[user].kind = "config" THEN cf[user].cfg ELSE DefaultConfig

\* fs::remove_dir_all(dir): every file below dir is gone
remove_dir_all(cf, dir) ==
  [v \in DOMAIN cf |-> IF starts_with(config_path_for(v), dir) THEN Absent ELSE cf[v]]

\* io = FALSE: the base directory cannot be resolved or the removal fails
delete_user_tree(cf, user, io) ==
  IF io THEN remove_dir_all(cf, users_base_dir \o name_components(user)) ELSE cf

\* ------------------------------------------------------------- credentials
list_users(uf) == uf

\* Err(NotFound) when nothing was removed, Err(Io) when io = FALSE
delete_user(uf, username, io) ==
  LET kept == SelectSeq(uf, LAMBDA n : n # username)
  IN  IF Len(kept) = Len(uf) \/ ~io THEN uf ELSE kept

\* ------------------------------------------- account handlers (UI thread)
set_login(s, q, n, logged_in) ==
  [state |-> [s EXCEPT !.is_logged_in = logged_in],
   queue |-> ui(q, AcctClosure(n + 1, "set_login",
                               <<IF logged_in THEN "true" ELSE "false">>, DefaultConfig)),
   nsent |-> n + 1]

\* user is an Option: <<>> is None
set_page(s, q, n, page) ==
  [state |-> [s EXCEPT !.current_page = page],
   queue |-> ui(q, AcctClosure(n + 1, "set_page", <<page>>, DefaultConfig)),
   nsent |-> n + 1]

set_current_user(s, q, n, user) ==
  [state |-> [s EXCEPT !.current_user = user],
   queue |-> ui(q, AcctClosure(n + 1, "set_user",
                               <<IF user = <<>> THEN "guest" ELSE user[1]>>, DefaultConfig)),
   nsent |-> n + 1]

push_users_to_ui(q, n, uf) ==
  [queue |-> ui(q, AcctClosure(n + 1, "users", list_users(uf), DefaultConfig)),
   nsent |-> n + 1]

on_logout ==
  /\ LET a == set_login(state, queue, nsent, FALSE)
         b == set_current_user(a.state, a.queue, a.nsent, <<>>)
         c == push_users_to_ui(b.queue, b.nsent, users_file)
     IN  /\ state' = b.state
         /\ queue' = ui(c.queue, AcctClosure(c.nsent + 1, "clear", <<>>, DefaultConfig))
         /\ nsent' = c.nsent + 1
  /\ UNCHANGED <<now, app, files, tasks, log, rest>>

on_switch_account(u) ==
  /\ LET a == set_current_user(state, queue, nsent, <<u>>)
         b == set_login(a.state, a.queue, a.nsent, TRUE)
         c == push_users_to_ui(b.queue, b.nsent, users_file)
         cfg == load_config_for(config_files, u)
     IN  /\ state' = b.state
         /\ queue' = ui(c.queue, AcctClosure(c.nsent + 1, "switch", <<u>>, cfg))
         /\ nsent' = c.nsent + 1
  /\ UNCHANGED <<now, app, files, tasks, log, rest>>

on_delete_account(u) ==
  /\ \E io1, io2 \in BOOLEAN :
       LET uf == delete_user(users_file, u, io1)
           cf == delete_user_tree(config_files, u, io2)
           active == current_user
           a == set_login(state, queue, nsent, FALSE)
           b == set_current_user(a.state, a.queue, a.nsent, <<>>)
           c == [state |-> b.state,
                 queue |-> ui(b.queue, AcctClosure(b.nsent + 1, "clear", <<>>, DefaultConfig)),
                 nsent |-> b.nsent + 1]
           d == IF active = u THEN c ELSE [state |-> state, queue |-> queue, nsent |-> nsent]
           e == push_users_to_ui(d.queue, d.nsent, uf)
       IN  /\ users_file' = uf
           /\ config_files' = cf
           /\ state' = d.state
           /\ queue' = e.queue
           /\ nsent' = e.nsent
  /\ UNCHANGED <<now, app, files, tasks, log, alive, mutex, threads, fetch, probe, disk, resp>>

\* --------------------------------------------------------- the Ok branch
\* mutant: the record takes the parameters the window shows at the save
record_of_current_params(t, ts) ==
  IF t.dom = "weather"
  THEN WeatherCache(ts, t.rows, Want(app.use_celsius), app.weather_city)
  ELSE NewsCache(ts, t.rows)

\* the record save_weather_for / save_news_for builds for a task
record_of(t, ts) ==
  IF t.dom = "weather"
  THEN WeatherCache(ts, t.rows, Want(t.use_celsius), t.city)
  ELSE NewsCache(ts, t.rows)

write_file(fs, user, dom, content) ==
  IF dom = "weather" THEN [fs EXCEPT ![user].weather = content]
  ELSE [fs EXCEPT ![user].news = content]

\* mutant: the record is written under the user active at the save
save_for_active_user(fs, t, ts, io) ==
  IF io THEN write_file(fs, current_user, t.dom, record_of(t, ts)) ELSE fs

\* save_weather_for / save_news_for: writes the file, or returns an io::Error
\* (io = FALSE: the directory or the file cannot be opened)
save_for(fs, t, ts, io) ==
  IF io THEN write_file(fs, t.user, t.dom, record_of(t, ts)) ELSE fs

\* mutant: the error of the save is propagated as a failed refresh
fetched_ok_or_io_error(r, rows, io) ==
  LET t == [tasks[r] EXCEPT !.rows = rows, !.ts = now,
                            !.saved = IF io THEN "ok" ELSE "err", !.pc = "posted"]
  IN  /\ files' = save_for(files, t, now, io)
      /\ tasks' = [tasks EXCEPT ![r] = t]
      /\ IF io THEN Post(r, "ok", <<>>, rows) ELSE Post(r, "fail", <<"Io">>, <<>>)
      /\ UNCHANGED <<now, state, app, log, rest>>

\* the fetch returned rows: save them, drop the result, queue the render
fetched_ok(r, rows, io) ==
  LET t == [tasks[r] EXCEPT !.rows = rows, !.ts = now,
                            !.saved = IF io THEN "ok" ELSE "err", !.pc = "posted"]
  IN  /\ files' = save_for(files, t, now, io)
      /\ tasks' = [tasks EXCEPT ![r] = t]
      /\ Post(r, "ok", <<>>, rows)
      /\ UNCHANGED <<now, state, app, log, rest>>

\* ------------------------------------------------- the spawned task: weather
geocode_ok(r) ==
  /\ tasks[r].dom = "weather" /\ tasks[r].pc = "geocode"
  /\ Post(r, "label", geocode_label(GeoItem(tasks[r].city)), <<>>)
  /\ tasks' = [tasks EXCEPT ![r].pc = "forecast"]
  /\ UNCHANGED <<now, state, app, files, log, rest>>

\* mutant: after the status of the geocode error the task goes on to the forecast
geocode_err_continuing(r) ==
  /\ tasks[r].dom = "weather" /\ tasks[r].pc = "geocode"
  /\ Post(r, "notfound", tasks[r].city, <<>>)
  /\ tasks' = [tasks EXCEPT ![r].pc = "forecast"]
  /\ UNCHANGED <<now, state, app, files, log, rest>>

\* mutant: the geocode error ends the task without a status
geocode_err_silent(r) ==
  /\ tasks[r].dom = "weather" /\ tasks[r].pc = "geocode"
  /\ tasks' = [tasks EXCEPT ![r].pc = "done"]
  /\ UNCHANGED <<now, state, app, files, queue, log, nsent, rest>>

geocode_err(r) ==
  /\ tasks[r].dom = "weather" /\ tasks[r].pc = "geocode"
  /\ Post(r, "notfound", tasks[r].city, <<>>)
  /\ tasks' = [tasks EXCEPT ![r].pc = "posted"]
  /\ UNCHANGED <<now, state, app, files, log, rest>>

forecast_ok(r) ==
  /\ tasks[r].dom = "weather" /\ tasks[r].pc = "forecast"
  /\ \E n \in {0, MaxRows}, io \in BOOLEAN :
       fetched_ok(r, ForecastRows(n, tasks[r].use_celsius, now), io)

\* mutant: a failed forecast evicts the record of the user
forecast_err_evicting(r) ==
  /\ tasks[r].dom = "weather" /\ tasks[r].pc = "forecast"
  /\ \E err \in WeatherErrors : Post(r, "fail", <<err>>, <<>>)
  /\ tasks' = [tasks EXCEPT ![r].pc = "posted"]
  /\ files' = write_file(files, tasks[r].user, "weather", Absent)
  /\ UNCHANGED <<now, state, app, log, rest>>

forecast_err(r) ==
  /\ tasks[r].dom = "weather" /\ tasks[r].pc = "forecast"
  /\ \E err \in WeatherErrors : Post(r, "fail", <<err>>, <<>>)
  /\ tasks' = [tasks EXCEPT ![r].pc = "posted"]
  /\ UNCHANGED <<now, state, app, files, log, rest>>

\* --------------------------------------------------- the spawned task: news
news_ok(r) ==
  /\ tasks[r].dom = "news" /\ tasks[r].pc = "search"
  /\ \E n \in {0, MaxRows}, io \in BOOLEAN :
       fetched_ok(r, NewsRows(n, tasks[r].topic, now), io)

news_err(r) ==
  /\ tasks[r].dom = "news" /\ tasks[r].pc = "search"
  /\ \E err \in NewsErrors : Post(r, "fail", <<err>>, <<>>)
  /\ tasks' = [tasks EXCEPT ![r].pc = "posted"]
  /\ UNCHANGED <<now, state, app, files, log, rest>>

\* ------------------------------------- the queued closures (UI thread)
label_closure(a, c) ==
  [a EXCEPT !.weather_status = loading_label_status(c.text)]

notfound_closure(a, c) ==
  [a EXCEPT !.weather_status = not_found_status(c.text)]

weather_ok_closure(a, c) ==
  [a EXCEPT !.weather_items = weather_items_of(c.rows),
            !.weather_status = weather_updated_status(c.use_celsius)]

weather_err_closure(a, c) ==
  [a EXCEPT !.weather_status = failure_status(a.weather_status, c.text[1])]

news_ok_closure(a, c) ==
  [a EXCEPT !.news_items = news_items_of(c.rows),
            !.news_status = news_updated_status]

\* mutant: a failure with nothing cached empties the view
news_err_closure_clearing(a, c) ==
  IF starts_with(a.news_status, <<"Cached">>)
  THEN [a EXCEPT !.news_status = failure_status(a.news_status, c.text[1])]
  ELSE [a EXCEPT !.news_items = <<>>,
                 !.news_status = failure_status(a.news_status, c.text[1])]

news_err_closure(a, c) ==
  [a EXCEPT !.news_status = failure_status(a.news_status, c.text[1])]

set_login_closure(a, c) == [a EXCEPT !.is_logged_in = (c.text = <<"true">>)]

set_page_closure(a, c) == [a EXCEPT !.current_page = c.text[1]]

set_user_closure(a, c) == [a EXCEPT !.current_user = c.text[1]]

users_closure(a, c) == [a EXCEPT !.users = c.text]

clear_closure(a, c) ==
  [a EXCEPT !.weather_items = <<>>, !.news_items = <<>>, !.login_error_text = <<>>,
            !.current_page = "Weather"]

clock_closure(a, c) == [a EXCEPT !.clock_text = c.text]

login_error_closure(a, c) == [a EXCEPT !.login_error_text = c.text]

apply_config(a, cfg) ==
  [a EXCEPT !.weather_city = cfg.city, !.use_celsius = cfg.units_celsius,
            !.news_topic = cfg.news_topic]

\* the settings a closure applies: switch_account loaded them in the handler,
\* the closure of a login or a registration loads them when it runs
closure_cfg(c) ==
  IF c.kind = "login" THEN load_config_for(config_files, c.text[1]) ELSE c.cfg

\* the closure of switch_account: the user's settings, then both refresh handlers
switch_closure(a, c) ==
  LET a0 == [apply_config(a, c.cfg) EXCEPT !.current_page = "Weather"]
  IN  refresh_news_app(refresh_weather_app(a0, current_user), current_user)

\* the closure of a login or a registration: the user's settings, the error
\* text cleared, the login flag, then both refresh handlers
login_closure(a, c) ==
  LET a0 == [apply_config(a, closure_cfg(c)) EXCEPT !.login_error_text = <<>>,
                                                    !.is_logged_in = TRUE]
  IN  refresh_news_app(refresh_weather_app(a0, current_user), current_user)

\* the tasks and the log after the two refresh handlers the closure invokes
switch_tasks(ts, a, c) ==
  LET a0 == apply_config(a, closure_cfg(c))
      user == current_user
      t1 == spawn_weather(ts, user, a0.weather_city, a0.use_celsius,
                          weather_cache_hit(user, a0.weather_city, a0.use_celsius))
  IN  spawn_news(t1, user, a0.news_topic, news_cache_hit(user, a0.news_topic))

switch_log(l, ts, a, c) ==
  LET a0 == apply_config(a, closure_cfg(c))
      user == current_user
      wk == IF weather_cache_hit(user, a0.weather_city, a0.use_celsius) = <<>>
            THEN "miss" ELSE "cache"
      nk == IF news_cache_hit(user, a0.news_topic) = <<>> THEN "miss" ELSE "cache"
  IN  [l EXCEPT !.weather = Append(@, [rid |-> Len(ts) + 1, kind |-> wk]),
                !.news = Append(@, [rid |-> Len(ts) + 2, kind |-> nk])]

\* mutant: the completion of a superseded refresh is discarded
run_closure_newest_only(a, c) ==
  IF \E r \in DOMAIN tasks : r > c.rid /\ tasks[r].dom = c.dom THEN a
  ELSE CASE c.kind = "label"    -> label_closure(a, c)
         [] c.kind = "notfound" -> notfound_closure(a, c)
         [] c.kind = "ok" /\ c.dom = "weather"   -> weather_ok_closure(a, c)
         [] c.kind = "fail" /\ c.dom = "weather" -> weather_err_closure(a, c)
         [] c.kind = "ok" /\ c.dom = "news"      -> news_ok_closure(a, c)
         [] c.kind = "fail" /\ c.dom = "news"    -> news_err_closure(a, c)
         [] c.kind = "set_login" -> set_login_closure(a, c)
         [] c.kind = "set_page"  -> set_page_closure(a, c)
         [] c.kind = "set_user"  -> set_user_closure(a, c)
         [] c.kind = "users"     -> users_closure(a, c)
         [] c.kind = "clear"     -> clear_closure(a, c)
         [] c.kind = "switch"    -> switch_closure(a, c)
         [] c.kind = "login"     -> login_closure(a, c)
         [] c.kind = "clock"     -> clock_closure(a, c)
         [] c.kind = "login_error" -> login_error_closure(a, c)

run_closure(a, c) ==
  CASE c.kind = "label"    -> label_closure(a, c)
    [] c.kind = "notfound" -> notfound_closure(a, c)
    [] c.kind = "ok" /\ c.dom = "weather"   -> weather_ok_closure(a, c)
    [] c.kind = "fail" /\ c.dom = "weather" -> weather_err_closure(a, c)
    [] c.kind = "ok" /\ c.dom = "news"      -> news_ok_closure(a, c)
    [] c.kind = "fail" /\ c.dom = "news"    -> news_err_closure(a, c)
    [] c.kind = "set_login" -> set_login_closure(a, c)
    [] c.kind = "set_page"  -> set_page_closure(a, c)
    [] c.kind = "set_user"  -> set_user_closure(a, c)
    [] c.kind = "users"     -> users_closure(a, c)
    [] c.kind = "clear"     -> clear_closure(a, c)
    [] c.kind = "switch"    -> switch_closure(a, c)
    [] c.kind = "login"     -> login_closure(a, c)
    [] c.kind = "clock"     -> clock_closure(a, c)
    [] c.kind = "login_error" -> login_error_closure(a, c)

\* mutant: the wrapper calls f without the upgrade check
call_unchecked(a, c) == run_closure(a, c)

\* the wrapper ui() queues: f runs if Weak::upgrade finds the MainWindow
upgrade_and_call(a, c) == IF alive THEN run_closure(a, c) ELSE a

\* mutant: the event loop runs the closure queued last
next_closure_newest(q) == Len(q)

\* which queued closure the event loop runs next: the oldest
next_closure(q) == 1

\* the event loop takes a closure off the queue and runs it
event_loop_run ==
  /\ queue # <<>>
  /\ LET i == next_closure(queue)
         c == queue[i]
     IN  /\ app' = upgrade_and_call(app, c)
         /\ queue' = SubSeq(queue, 1, i - 1) \o SubSeq(queue, i + 1, Len(queue))
         /\ tasks' = IF c.dom = "acct"
                     THEN IF alive /\ c.kind \in {"switch", "login"}
                          THEN switch_tasks(tasks, app, c) ELSE tasks
                     ELSE IF c.kind = "label" THEN tasks
                     ELSE [tasks EXCEPT ![c.rid].pc = "done"]
         /\ log' = IF ~alive THEN log
                   ELSE IF c.dom = "acct"
                   THEN IF c.kind \in {"switch", "login"}
                        THEN switch_log(log, tasks, app, c) ELSE log
                   ELSE [log EXCEPT ![c.dom] = Append(@, [rid |-> c.rid, kind |-> c.kind])]
  /\ UNCHANGED <<now, state, files, nsent, rest>>

\* ------------------------------------------------------------ environment
\* the user edits one of the settings fields of the window
edit_settings ==
  /\ \/ \E c \in Cities \ {app.weather_city} : app' = [app EXCEPT !.weather_city = c]
     \/ app' = [app EXCEPT !.use_celsius = ~app.use_celsius]
     \/ \E t \in Topics \ {app.news_topic} : app' = [app EXCEPT !.news_topic = t]
  /\ UNCHANGED <<now, state, files, tasks, queue, log, nsent, rest>>

\* the clock advances; the run is followed until the clock has passed the TTL
tick ==
  /\ now <= TTL
  /\ now' = now + TickSecs
  /\ UNCHANGED <<state, app, files, tasks, queue, log, nsent, rest>>

\* ---------------------------------------------------------- specifications
\* Overlapping refreshes of both domains, with the settings and the clock
\* left alone.
Next ==
  \/ Len(tasks) < MaxRefresh /\ on_refresh_weather
  \/ Len(tasks) < MaxRefresh /\ on_refresh_news
  \/ \E r \in DOMAIN tasks :
       \/ geocode_ok(r) \/ geocode_err(r) \/ forecast_ok(r) \/ forecast_err(r)
       \/ news_ok(r) \/ news_err(r)
  \/ event_loop_run

Spec == Init /\ [][Next]_vars

\* One refresh at a time, while the user edits the settings and the clock runs.
Settled == \A r \in DOMAIN tasks : tasks[r].pc = "done"

NextSeq ==
  \/ Settled /\ Len(tasks) < MaxSeqRefresh /\ on_refresh_weather
  \/ Settled /\ Len(tasks) < MaxSeqRefresh /\ on_refresh_news
  \/ \E r \in DOMAIN tasks :
       \/ geocode_ok(r) \/ geocode_err(r) \/ forecast_ok(r) \/ forecast_err(r)
       \/ news_ok(r) \/ news_err(r)
  \/ event_loop_run
  \/ edit_settings
  \/ tick

SpecSeq == Init /\ [][NextSeq]_vars

\* The workers and the event loop keep running: every network call returns
\* and every queued closure is run.
Work ==
  \/ \E r \in DOMAIN tasks :
       \/ geocode_ok(r) \/ geocode_err(r) \/ forecast_ok(r) \/ forecast_err(r)
       \/ news_ok(r) \/ news_err(r)
  \/ event_loop_run

NextLive ==
  \/ Len(tasks) < MaxLiveRefresh /\ on_refresh_weather
  \/ Len(tasks) < MaxLiveRefresh /\ on_refresh_news
  \/ Work

SpecLive == Init /\ [][NextLive]_vars /\ WF_vars(Work)

\* Overlapping refreshes until the MainWindow is dropped, and the closures
\* that are still queued then.
teardown ==
  /\ alive
  /\ alive' = FALSE
  /\ UNCHANGED <<now, state, app, files, tasks, queue, log, nsent,
                 users_file, config_files, mutex, threads, fetch, probe, disk, resp>>

NextDown ==
  \/ alive /\ Len(tasks) < MaxDownRefresh /\ on_refresh_weather
  \/ alive /\ Len(tasks) < MaxDownRefresh /\ on_refresh_news
  \/ Work
  \/ teardown

SpecDown == Init /\ [][NextDown]_vars

\* Account events: switching to an account and deleting accounts while the
\* refreshes a switch starts are in flight.
AnaConfig == [city |-> Cluj, news_topic |-> "rust", units_celsius |-> FALSE]

InitAcct ==
  /\ now = 0
  /\ state = NewAppState
  /\ users_file \in {<<"ana">>, <<"ana", "">>}
  /\ app = [DefaultApp EXCEPT !.users = users_file]
  /\ config_files = [u \in Users |->
                       IF u = "ana" THEN ConfigFile(AnaConfig) ELSE ConfigFile(DefaultConfig)]
  /\ files \in {[u \in Users |-> IF u = "ana" THEN c ELSE NoCache] :
                 c \in {NoCache, [weather |-> OldWeather, news |-> OldNews]}}
  /\ tasks = <<>>
  /\ queue = <<>>
  /\ log = [d \in Domains |-> <<>>]
  /\ nsent = 0
  /\ alive = TRUE
  /\ mutex = "free"
  /\ threads = IdleThreads
  /\ fetch = NoFetch
  /\ probe = NoProbe
  /\ disk = NoDisk
  /\ resp = NoResp

\* a switch starts two refreshes once its closure runs
SwitchPending == \E i \in DOMAIN queue : queue[i].kind = "switch"

NextAcct ==
  \/ \E u \in Users :
       /\ nsent < MaxSent /\ ~SwitchPending /\ Len(tasks) + 2 <= MaxAcctRefresh
       /\ on_switch_account(u)
  \/ \E u \in Users : nsent < MaxSent /\ on_delete_account(u)
  \/ Work

SpecAcct == InitAcct /\ [][NextAcct]_vars

\* ------------------------------------------------------------- observations
Status(d) == IF d = "weather" THEN app.weather_status ELSE app.news_status
Items(d)  == IF d = "weather" THEN app.weather_items ELSE app.news_items

ItemsOf(d, rows) ==
  IF d = "weather"
  THEN [i \in DOMAIN rows |->
          [time |-> rows[i].time, temp |-> rows[i].temp, summary |-> rows[i].summary]]
  ELSE [i \in DOMAIN rows |->
          [title |-> rows[i].title, source |-> rows[i].source,
           published |-> rows[i].published, url |-> rows[i].url]]

TasksOf(d) == {r \in DOMAIN tasks : tasks[r].dom = d}
InFlight(d) == \E r \in TasksOf(d) : tasks[r].pc # "done"

Terminal == {"ok", "fail", "notfound"}
Failure  == {"fail", "notfound"}

\* the entries of a domain's log that belong to refresh r and are of a kind in K
Entries(d, r, K) == {i \in DOMAIN log[d] : log[d][i].rid = r /\ log[d][i].kind \in K}

LastEntry(d) == log[d][Len(log[d])]

\* the event loop is taking the closure c off the queue in this step
Presenting(c) == queue # <<>> /\ c = queue[1] /\ queue' = Tail(queue)

\* a refresh handler of domain d is running in this step
Triggering(d) ==
  /\ Len(tasks') = Len(tasks) + 1
  /\ tasks'[Len(tasks')].dom = d

\* ------------------------------------------------------------------ claims
OfflineCached == OfflinePrefix \o <<"Cached">>

\* C1: a refresh that rendered a fresh, matching cache record at its trigger and
\* whose network fetch then failed (geocoding included) has, once it has settled
\* as the only refresh of its domain, a status that begins with
\* "Offline <bullet> Cached" and shows exactly the cached rows.
C1_OfflineFallback ==
  \A d \in Domains : \A r \in TasksOf(d) :
    (/\ TasksOf(d) = {r}
     /\ tasks[r].hit
     /\ tasks[r].pc = "done"
     /\ Entries(d, r, Failure) # {})
    => /\ starts_with(Status(d), OfflineCached)
       /\ Items(d) = ItemsOf(d, tasks[r].cached)

\* C2: presenting a failed fetch (geocode error, forecast error, search error)
\* leaves the rendered rows of both domains as they were.
C2_FailureKeepsRows ==
  [][\A c \in {queue[i] : i \in DOMAIN queue} :
       (Presenting(c) /\ c.kind \in Failure)
       => /\ app'.weather_items = app.weather_items
          /\ app'.news_items = app.news_items]_vars

\* C2 witness: a failure has just been presented over rows that are on screen.
C2_Witness ==
  \E d \in Domains :
    /\ log[d] # <<>>
    /\ LastEntry(d).kind \in Failure
    /\ Items(d) # <<>>

\* C3 as claimed: when the failure of a refresh that found no cache is presented
\* and the status does not begin with "Cached", the status becomes
\* "Failed to load: <error>" and the view of that domain is empty afterwards.
C3_FailedLeavesEmpty ==
  [][\A c \in {queue[i] : i \in DOMAIN queue} :
       (/\ Presenting(c) /\ c.kind = "fail"
        /\ ~tasks[c.rid].hit
        /\ ~starts_with(Status(c.dom), <<"Cached">>))
       => /\ Status(c.dom)' = <<"Failed to load: ", c.text[1]>>
          /\ Items(c.dom)' = <<>>]_vars

\* C3 amended: when the failure of a fetch is presented and the status does not
\* begin with "Cached", the status becomes "Failed to load: <error>" and the
\* rows of the view stay as they were (empty only if nothing was rendered).
C3_FailedKeepsView ==
  [][\A c \in {queue[i] : i \in DOMAIN queue} :
       (/\ Presenting(c) /\ c.kind = "fail"
        /\ ~starts_with(Status(c.dom), <<"Cached">>))
       => /\ Status(c.dom)' = <<"Failed to load: ", c.text[1]>>
          /\ Items(c.dom)' = Items(c.dom)]_vars

\* C3 witness: "Failed to load" has just been presented over rows of an earlier
\* refresh.
C3_Witness ==
  \E d \in Domains :
    /\ log[d] # <<>>
    /\ LastEntry(d).kind = "fail"
    /\ starts_with(Status(d), <<"Failed to load: ">>)
    /\ Items(d) # <<>>

FileOf(fs, user, d) == IF d = "weather" THEN fs[user].weather ELSE fs[user].news

\* C4: a weather refresh renders the cache record at its trigger only if the
\* record is within the 15-minute TTL, its units are the requested units and its
\* city is the requested city compared without case; the rows rendered are the
\* record's.
C4_CacheMatch ==
  [][(Triggering("weather") /\ starts_with(app'.weather_status, <<"Cached">>))
     => LET c == files[current_user].weather
        IN  /\ c.kind = "weather"
            /\ now - c.ts <= TTL
            /\ c.units = (IF app.use_celsius THEN "C" ELSE "F")
            /\ to_lowercase(c.city) = to_lowercase(app.weather_city)
            /\ app'.weather_items = ItemsOf("weather", c.rows)]_vars

\* C4 witness: the record stored for "bucharest" has been rendered for a request
\* for "Bucharest".
C4_Witness ==
  \E r \in TasksOf("weather") :
    /\ tasks[r].hit
    /\ tasks[r].city = Bucharest
    /\ starts_with(app.weather_status, <<"Cached">>)
    /\ files[tasks[r].user].weather.kind = "weather"
    /\ files[tasks[r].user].weather.city = bucharest

\* C5: the rows a news refresh for topic T renders from the cache at its trigger
\* were fetched for topic T.
C5_NewsKeyedByTopic ==
  \A r \in TasksOf("news") :
    tasks[r].hit =>
      \A i \in DOMAIN tasks[r].cached : tasks[r].cached[i].title = tasks[r].topic

Triggers == {"miss", "cache"}

\* C6: every refresh trigger has exactly one spawned network task and every task
\* exactly one trigger, whether or not the cache check rendered a hit.
C6_OneFetchPerTrigger ==
  /\ \A d \in Domains : \A i \in DOMAIN log[d] :
       log[d][i].kind \in Triggers => log[d][i].rid \in TasksOf(d)
  /\ \A r \in DOMAIN tasks :
       /\ Cardinality(Entries(tasks[r].dom, r, Triggers)) = 1
       /\ tasks[r].hit <=> Entries(tasks[r].dom, r, {"cache"}) # {}

\* C6 witness: a refresh rendered a cache hit and its network fetch still ran
\* and presented fetched rows.
C6_Witness ==
  \E r \in DOMAIN tasks :
    /\ tasks[r].hit
    /\ tasks[r].pc = "done"
    /\ Entries(tasks[r].dom, r, {"ok"}) # {}

UpdatedText(t) ==
  IF t.dom = "weather"
  THEN <<"Updated", " (", Degree, IF t.use_celsius THEN "C" ELSE "F", ")">>
  ELSE <<>>

C8_CacheRenderFirst ==
  \A d \in Domains : \A j \in DOMAIN log[d] :
    (log[d][j].kind \in Failure /\ tasks[log[d][j].rid].hit)
    => \E i \in 1..(j - 1) : log[d][i] = [rid |-> log[d][j].rid, kind |-> "cache"]

\* C8 witness: a refresh rendered its cache hit and then presented a failure.
C8_Witness ==
  \E d \in Domains : \E r \in TasksOf(d) :
    /\ tasks[r].hit
    /\ Entries(d, r, {"cache"}) # {}
    /\ Entries(d, r, Failure) # {}

\* C9: overlapping refreshes of a domain are not cancelled: each presents its
\* completion exactly once, and when none is left in flight the view shows the
\* completion presented last, whichever request it belongs to.
C9_LastWriteWins ==
  \A d \in Domains :
    /\ \A r \in TasksOf(d) :
         /\ Cardinality(Entries(d, r, Terminal)) = (IF tasks[r].pc = "done" THEN 1 ELSE 0)
         /\ tasks[r].pc = "posted"
              => \E i \in DOMAIN queue : queue[i].rid = r /\ queue[i].kind \in Terminal
    /\ (~InFlight(d) /\ log[d] # <<>>)
       => LET e == LastEntry(d)
              t == tasks[e.rid]
          IN  /\ e.kind \in Terminal
              /\ e.kind = "ok"
                   => Items(d) = ItemsOf(d, t.rows) /\ Status(d) = UpdatedText(t)
              /\ e.kind = "notfound" => Status(d) = <<"City not found: ">> \o t.city
              /\ e.kind = "fail"
                   => \/ starts_with(Status(d), <<"Failed to load: ">>)
                      \/ starts_with(Status(d), OfflineCached)

\* C9 witness: a second refresh was triggered before the first had landed, both
\* completed, and the first (older) one was presented last with other rows.
C9_Witness ==
  \E d \in Domains :
    /\ TasksOf(d) = {1, 2}
    /\ ~InFlight(d)
    /\ LastEntry(d) = [rid |-> 1, kind |-> "ok"]
    /\ \E i, j \in DOMAIN log[d] :
         /\ i < j
         /\ log[d][i].rid = 2 /\ log[d][i].kind \in Triggers
         /\ log[d][j].rid = 2 /\ log[d][j].kind = "ok"
    /\ tasks[1].rows # tasks[2].rows
    /\ Items(d) = ItemsOf(d, tasks[1].rows)

\* the terminal texts the refresh pipeline is said to end on
TerminalStatus(d) ==
  \/ starts_with(Status(d), <<"Updated">>)
  \/ starts_with(Status(d), OfflineCached)
  \/ starts_with(Status(d), <<"Failed to load: ">>)
  \/ starts_with(Status(d), <<"City not found: ">>)

\* the terminal texts the completions of main.rs write
SettledStatus(d) ==
  \/ TerminalStatus(d)
  \/ d = "news" /\ Status(d) = news_updated_status

\* C10 as claimed: with every network call returning and the event loop
\* running, every refresh settles, and whenever no refresh of a domain is in
\* flight its status is an Updated, an "Offline <bullet> Cached", a "Failed to
\* load" or a not-found text, never "Loading".
C10_SettlesAsListed ==
  /\ \A r \in 1..MaxLiveRefresh :
       (r \in DOMAIN tasks) ~> (r \in DOMAIN tasks /\ tasks[r].pc = "done")
  /\ [](\A d \in Domains :
          (~InFlight(d) /\ log[d] # <<>>)
          => (TerminalStatus(d) /\ ~starts_with(Status(d), <<"Loading">>)))

\* C10 amended: with every network call returning and the event loop running,
\* every refresh settles, and whenever no refresh of a domain is in flight its
\* status is never "Loading": it is "Updated (<unit>)" for weather or the empty
\* text for news after a success, and an "Offline <bullet> Cached", a "Failed to
\* load" or a not-found text after a failure.
C10_Settles ==
  /\ \A r \in 1..MaxLiveRefresh :
       (r \in DOMAIN tasks) ~> (r \in DOMAIN tasks /\ tasks[r].pc = "done")
  /\ [](\A d \in Domains :
          (~InFlight(d) /\ log[d] # <<>>)
          => /\ SettledStatus(d)
             /\ ~starts_with(Status(d), <<"Loading">>)
             /\ LastEntry(d).kind = "ok" <=> Status(d) = UpdatedText(tasks[LastEntry(d).rid]))

\* C10 witness: the refreshes of a run have settled, one of them on a failure.
C10_Witness ==
  /\ Len(tasks) = MaxLiveRefresh
  /\ \A r \in DOMAIN tasks : tasks[r].pc = "done"
  /\ \E d \in Domains : \E r \in TasksOf(d) : Entries(d, r, Failure) # {}

\* C11: once the active account has been deleted, AppState is logged out with
\* current_user = None, and whenever the presentation queue is empty the window
\* shows the logged-out state with empty weather and news views.
C11_DeleteActiveLogsOut ==
  /\ state.current_user = <<>> => ~state.is_logged_in
  /\ (state.current_user = <<>> /\ queue = <<>>)
     => /\ ~app.is_logged_in
        /\ app.current_user = "guest"
        /\ app.weather_items = <<>>
        /\ app.news_items = <<>>

\* the delete-account handler is running for user u in this step
Deleting(u) == on_delete_account(u)

\* C12: deleting user u, whatever name the event carries, leaves the cache
\* records, the config file and the credential entry of every other user as
\* they were.
C12_DeleteLeavesOthers ==
  [][\A u \in Users :
       Deleting(u)
       => \A v \in Users \ {u} :
            /\ files'[v] = files[v]
            /\ config_files'[v] = config_files[v]
            /\ SelectSeq(users_file', LAMBDA n : n = v) =
                 SelectSeq(users_file, LAMBDA n : n = v)]_vars

\* C13: when delete-account for a registered user u removes u's credential
\* entry and u's config, the cache reads for u return no record afterwards.
C13_DeleteCascades ==
  [][\A u \in Users :
       (/\ Deleting(u)
        /\ \E i \in DOMAIN users_file : users_file[i] = u
        /\ \A i \in DOMAIN users_file' : users_file'[i] # u
        /\ config_files'[u] = Absent)
       => /\ files'[u].weather.kind # "weather"
          /\ files'[u].news.kind # "news"]_vars

Min(a, b) == IF a <= b THEN a ELSE b

\* the i-th hit of a search response: the first has a title and a url, the
\* second an object id only, the others nothing
HitAt(i) ==
  [id |-> i,
   title |-> IF i = 1 THEN <<"title-1">> ELSE <<>>,
   url |-> IF i = 1 THEN <<"https://a.example/1">> ELSE <<>>,
   object_id |-> IF i = 2 THEN <<"2">> ELSE <<>>]

SearchResponse(m) == [i \in 1..m |-> HitAt(i)]

\* data.hits.into_iter().take(count)
take(hits, count) == SubSeq(hits, 1, Min(Len(hits), count))

\* the title and the url a future computes for its hit
title_of(hit) == IF hit.title # <<>> THEN hit.title[1] ELSE "Untitled"

url_of(hit) ==
  IF hit.url # <<>> THEN hit.url[1]
  ELSE IF hit.object_id # <<>> THEN "https://news.ycombinator.com/item?id=2"
  ELSE "https://news.ycombinator.com/"

\* mutant: a failed thumbnail fetch yields no buffer
fetch_thumbnail_or_nothing(fetched, opened) ==
  IF fetched THEN "thumbnail" ELSE "none"

\* the buffer for an article: the thumbnail, the bundled image when the fetch
\* fails, a new 10x10 buffer when the bundled image cannot be opened either
fetch_thumbnail_or_placeholder(fetched, opened) ==
  IF fetched THEN "thumbnail"
  ELSE IF opened THEN "icons/no_image.png"
  ELSE "SharedPixelBuffer::new(10, 10)"

\* the tuple a future resolves to
enriched(hit, thumbnail) ==
  [id |-> hit.id, title |-> title_of(hit), url |-> url_of(hit),
   thumbnail |-> thumbnail]

\* out.push(res)
push(out, e) == Append(out, e)

\* the search answered with m hits: truncate, push one future per hit
search_ok(m) ==
  /\ fetch.stage = "idle"
  /\ LET hits == take(SearchResponse(m), fetch.count) IN
       fetch' = [fetch EXCEPT !.stage = "enrich", !.found = m, !.hits = hits,
                              !.futures = DOMAIN hits]
  /\ UNCHANGED <<now, state, app, files, tasks, queue, log, nsent, alive,
                 users_file, config_files, mutex, threads, probe, disk, resp>>

\* the search failed: `?` returns the error before any future exists
search_err ==
  /\ fetch.stage = "idle"
  /\ fetch' = [fetch EXCEPT !.stage = "err"]
  /\ UNCHANGED <<now, state, app, files, tasks, queue, log, nsent, alive,
                 users_file, config_files, mutex, threads, probe, disk, resp>>

\* futures.next() yields the future of hit i, whichever completes next
future_done(i, fetched, opened) ==
  /\ fetch.stage = "enrich"
  /\ i \in fetch.futures
  /\ LET e == enriched(fetch.hits[i], fetch_thumbnail_or_placeholder(fetched, opened)) IN
       fetch' = [fetch EXCEPT !.futures = @ \ {i},
                              !.failed = IF fetched THEN @ ELSE @ \cup {i},
                              !.out = push(@, e)]
  /\ UNCHANGED <<now, state, app, files, tasks, queue, log, nsent, alive,
                 users_file, config_files, mutex, threads, probe, disk, resp>>

\* futures.next() yields None: Ok(out)
fetch_return ==
  /\ fetch.stage = "enrich"
  /\ fetch.futures = {}
  /\ fetch' = [fetch EXCEPT !.stage = "ok"]
  /\ UNCHANGED <<now, state, app, files, tasks, queue, log, nsent, alive,
                 users_file, config_files, mutex, threads, probe, disk, resp>>

InitEnrich ==
  /\ now = 0
  /\ state = NewAppState
  /\ app = DefaultApp
  /\ files = [u \in Users |-> NoCache]
  /\ tasks = <<>>
  /\ queue = <<>>
  /\ log = [d \in Domains |-> <<>>]
  /\ nsent = 0
  /\ alive = TRUE
  /\ users_file = <<>>
  /\ config_files = [u \in Users |-> Absent]
  /\ mutex = "free"
  /\ threads = IdleThreads
  /\ fetch = [NoFetch EXCEPT !.count = MaxCount]
  /\ probe = NoProbe
  /\ disk = NoDisk
  /\ resp = NoResp

Enrich ==
  \/ \E i \in 1..MaxHits : \E fetched, opened \in BOOLEAN : future_done(i, fetched, opened)
  \/ fetch_return

NextEnrich ==
  \/ \E m \in 0..MaxHits : search_ok(m)
  \/ search_err
  \/ Enrich

\* every sub-fetch ends: the client of fetch_thumbnail_buffer has a timeout
SpecEnrich == InitEnrich /\ [][NextEnrich]_vars /\ WF_vars(Enrich)

\* ------------------------------------------------------------------- C15
Placeholder == "icons/no_image.png"
Blank == "SharedPixelBuffer::new(10, 10)"

\* the entries of out that came from hit i
EntriesOf(i) == {k \in DOMAIN fetch.out : fetch.out[k].id = i}

\* once the futures exist the call ends in Ok(out), and out has one entry per
\* hit that was kept, with the hit's title and url
ReturnsAll ==
  /\ [](fetch.stage \in {"enrich", "ok"}
        => /\ Len(fetch.hits) = Min(fetch.found, fetch.count)
           /\ \A i \in DOMAIN fetch.hits : i \in fetch.futures <=> EntriesOf(i) = {}
           /\ \A i \in DOMAIN fetch.hits : Cardinality(EntriesOf(i)) <= 1
           /\ \A k \in DOMAIN fetch.out :
                /\ fetch.out[k].id \in DOMAIN fetch.hits
                /\ fetch.out[k].title = title_of(fetch.hits[fetch.out[k].id])
                /\ fetch.out[k].url = url_of(fetch.hits[fetch.out[k].id]))
  /\ [](fetch.stage = "ok"
        => /\ Len(fetch.out) = Len(fetch.hits)
           /\ \A i \in DOMAIN fetch.hits : Cardinality(EntriesOf(i)) = 1)
  /\ [][fetch.stage = "enrich" => fetch'.stage \in {"enrich", "ok"}]_vars
  /\ (fetch.stage = "enrich" ~> fetch.stage = "ok")

\* C15 as claimed: a search that returned N results after truncation ends in
\* Ok with exactly N entries, one per result, whatever fails and in whatever
\* order, and every entry whose thumbnail fetch failed carries the placeholder
\* image.
C15_FailedCarryPlaceholder ==
  /\ ReturnsAll
  /\ [](\A k \in DOMAIN fetch.out :
          fetch.out[k].id \in fetch.failed => fetch.out[k].thumbnail = Placeholder)

\* C15 amended: the same, and an entry whose thumbnail fetch failed carries the
\* placeholder image or, when the placeholder cannot be opened, the blank
\* 10x10 buffer; an entry whose fetch succeeded carries the thumbnail.
C15_EnrichmentTotal ==
  /\ ReturnsAll
  /\ [](\A k \in DOMAIN fetch.out :
          IF fetch.out[k].id \in fetch.failed
          THEN fetch.out[k].thumbnail \in {Placeholder, Blank}
          ELSE fetch.out[k].thumbnail = "thumbnail")

\* C15 witness: a response longer than count was truncated, the last hit
\* completed first, a strict subset of the thumbnail fetches failed, and the
\* call returned.
C15_Witness ==
  /\ fetch.stage = "ok"
  /\ fetch.found > fetch.count
  /\ Len(fetch.out) = MaxCount
  /\ fetch.out[1].id = MaxCount
  /\ fetch.failed # {} /\ fetch.failed # DOMAIN fetch.hits

\* ------------------------------------------------------------------- C16
\* a worker is at a point where its next step hands a closure to ui()
AboutToPost(r) == tasks[r].pc \in {"geocode", "forecast", "search"}

WorkerStep(r) ==
  \/ geocode_ok(r) \/ geocode_err(r) \/ forecast_ok(r) \/ forecast_err(r)
  \/ news_ok(r) \/ news_err(r)

\* the numbers of the closures in a queue
SeqsIn(q) == {q[i].seq : i \in DOMAIN q}

\* C16: a closure handed to ui() runs at most once, later, on the presentation
\* thread: it sits in the queue under a number of its own, the step that
\* queues it leaves the window alone, and the event loop removes it when it runs
\* it; a closure run after the MainWindow was dropped changes neither the
\* window nor AppState nor the store nor what the views were given; and a
\* worker about to call ui() can take its step whatever the queue holds and
\* whether or not the window exists.
C16_PresentOnce ==
  /\ [](/\ Cardinality(SeqsIn(queue)) = Len(queue)
        /\ \A n \in SeqsIn(queue) : n <= nsent)
  /\ [][/\ SeqsIn(queue') \ SeqsIn(queue) = (nsent + 1)..nsent'
        /\ nsent' > nsent => app' = app
        /\ \A c \in {queue[i] : i \in DOMAIN queue} :
             Presenting(c) => c.seq \notin SeqsIn(queue') /\ Len(queue') = Len(queue) - 1]_vars
  /\ [][(~alive /\ queue # <<>> /\ queue' = Tail(queue))
        => /\ app' = app /\ state' = state /\ files' = files /\ log' = log
           /\ nsent' = nsent]_vars
  /\ [](\A r \in DOMAIN tasks : AboutToPost(r) => ENABLED WorkerStep(r))

\* C16 witness: the MainWindow was dropped with the label closure and the
\* completion closure of a weather refresh queued; the label closure has run
\* and the status is still the one the handler wrote.
C16_Witness ==
  /\ ~alive
  /\ nsent = 2
  /\ Len(queue) = 1
  /\ queue[1].kind = "ok"
  /\ app.weather_status = Loading

\* ------------------------------------------------------------------- C17
\* the event loop is running the queued closure c in this step
Applying(c) ==
  /\ Len(queue') = Len(queue) - 1
  /\ c.seq \in SeqsIn(queue) \ SeqsIn(queue')

set_clock(s, q, n, text) ==
  [state |-> [s EXCEPT !.clock_text = text],
   queue |-> ui(q, AcctClosure(n + 1, "clock", text, DefaultConfig)),
   nsent |-> n + 1]

set_login_error(q, n, msg) ==
  [queue |-> ui(q, AcctClosure(n + 1, "login_error", msg, DefaultConfig)),
   nsent |-> n + 1]

\* the setter a thread is in: its write to AppState and the closure it queues
setter(op, arg, s, q, n) ==
  CASE op = "set_login"        -> set_login(s, q, n, arg[1])
    [] op = "set_current_user" -> set_current_user(s, q, n, arg)
    [] op = "set_clock"        -> set_clock(s, q, n, arg)

\* LocalAuth::verify_login; pin_ok: the hash of the pin matches
verify_login(uf, username, pin_ok) ==
  IF \A i \in DOMAIN uf : uf[i] # username THEN "NotFound"
  ELSE IF pin_ok THEN "Ok" ELSE "InvalidPin"

\* the thread starts op: next it calls state.lock()
call(th, h, op, arg) == [th EXCEPT !.pc = "lock", !.h = h, !.op = op, !.arg = arg]

\* mutant: lock() returns a guard whether or not the mutex is held
can_lock_always(m) == TRUE

\* Mutex::lock returns once no other guard exists
can_lock(m) == m = "free"

\* mutant: the guard outlives the block it was taken in
guard_kept(t) == t

\* the holder of the mutex once the guard of thread t is dropped
guard_dropped(t) == "free"

lock(t) ==
  /\ threads[t].pc = "lock"
  /\ can_lock(mutex)
  /\ mutex' = t
  /\ threads' = [threads EXCEPT ![t].pc = "held"]
  /\ UNCHANGED <<now, state, app, files, tasks, queue, log, nsent, alive,
                 users_file, config_files, fetch, probe, disk, resp>>

\* the read or the write made through the guard
access(t) ==
  /\ threads[t].pc = "held"
  /\ LET th == threads[t] IN
       /\ state' = CASE th.op = "current_user" -> state
                     [] th.op = "store_user" -> [state EXCEPT !.current_user = th.arg]
                     [] OTHER -> setter(th.op, th.arg, state, queue, nsent).state
       /\ threads' = [threads EXCEPT ![t].pc = "unlock",
                                     ![t].val = IF th.op = "current_user"
                                                THEN <<current_user>> ELSE @]
  /\ UNCHANGED <<now, app, files, tasks, queue, log, nsent, alive,
                 users_file, config_files, mutex, fetch, probe, disk, resp>>

\* the guard goes out of scope
unlock(t) ==
  /\ threads[t].pc = "unlock"
  /\ mutex' = guard_dropped(t)
  /\ LET th == threads[t] IN
       threads' = [threads EXCEPT ![t] =
                     CASE th.op = "current_user" -> [th EXCEPT !.pc = "handler"]
                       [] th.op = "store_user" -> call(th, th.h, "set_current_user", th.arg)
                       [] OTHER -> [th EXCEPT !.pc = "post"]]
  /\ UNCHANGED <<now, state, app, files, tasks, queue, log, nsent, alive,
                 users_file, config_files, fetch, probe, disk, resp>>

\* the ui() call that ends a setter; then the caller goes on
post_setter(t) ==
  /\ threads[t].pc = "post"
  /\ LET th == threads[t]
         r == setter(th.op, th.arg, state, queue, nsent)
     IN  /\ queue' = r.queue
         /\ nsent' = r.nsent
         /\ threads' = [threads EXCEPT ![t] =
              CASE th.op = "set_clock" -> [th EXCEPT !.pc = "tick"]
                [] th.op = "set_login" -> call(th, th.h, "set_current_user", <<>>)
                [] OTHER -> [th EXCEPT !.pc = "finish"]]
  /\ UNCHANGED <<now, state, app, files, tasks, log, alive,
                 users_file, config_files, mutex, fetch, probe, disk, resp>>

\* what follows the setters: logout queues the user list and the clearing of
\* the views, a login the user list and the closure that loads the settings
finish(t) ==
  /\ threads[t].pc = "finish"
  /\ LET th == threads[t]
         a == push_users_to_ui(queue, nsent, users_file)
         last == IF th.h = "logout"
                 THEN AcctClosure(a.nsent + 1, "clear", <<>>, DefaultConfig)
                 ELSE AcctClosure(a.nsent + 1, "login", th.arg, DefaultConfig)
     IN  /\ queue' = ui(a.queue, last)
         /\ nsent' = a.nsent + 1
         /\ threads' = [threads EXCEPT ![t].pc = IF t = "ui" THEN "idle" ELSE "done"]
  /\ UNCHANGED <<now, state, app, files, tasks, log, alive,
                 users_file, config_files, mutex, fetch, probe, disk, resp>>

\* on_logout starts: set_login(false) first
logout_requested ==
  /\ threads["ui"].pc = "idle" /\ threads["ui"].n < MaxCalls
  /\ threads' = [threads EXCEPT !["ui"] =
                   [call(@, "logout", "set_login", <<FALSE>>) EXCEPT !.n = @ + 1]]
  /\ UNCHANGED <<now, state, app, files, tasks, queue, log, nsent, alive,
                 users_file, config_files, mutex, fetch, probe, disk, resp>>

\* on_refresh_news starts: current_user() first
refresh_requested ==
  /\ threads["ui"].pc = "idle" /\ threads["ui"].n < MaxCalls
  /\ threads' = [threads EXCEPT !["ui"] =
                   [call(@, "refresh", "current_user", <<>>) EXCEPT !.n = @ + 1]]
  /\ UNCHANGED <<now, state, app, files, tasks, queue, log, nsent, alive,
                 users_file, config_files, mutex, fetch, probe, disk, resp>>

\* the rest of on_refresh_news, for the user current_user() returned
refresh_as_read ==
  /\ threads["ui"].pc = "handler"
  /\ LET user == threads["ui"].val[1]
         topic == app.news_topic
         hit == news_cache_hit(user, topic)
     IN  /\ app' = refresh_news_app(app, user)
         /\ tasks' = spawn_news(tasks, user, topic, hit)
         /\ log' = [log EXCEPT !.news =
                      Append(@, [rid |-> Len(tasks) + 1,
                                 kind |-> IF hit = <<>> THEN "miss" ELSE "cache"])]
  /\ threads' = [threads EXCEPT !["ui"].pc = "idle"]
  /\ UNCHANGED <<now, state, files, queue, nsent, alive,
                 users_file, config_files, mutex, fetch, probe, disk, resp>>

\* on_login_requested: the error text is cleared and the task is spawned
login_requested(u) ==
  /\ threads["ui"].pc = "idle" /\ threads["login"].pc = "none"
  /\ LET a == set_login_error(queue, nsent, <<>>) IN
       queue' = a.queue /\ nsent' = a.nsent
  /\ threads' = [threads EXCEPT !["login"] = [@ EXCEPT !.pc = "join", !.h = "login",
                                                        !.arg = <<u>>]]
  /\ UNCHANGED <<now, state, app, files, tasks, log, alive,
                 users_file, config_files, mutex, fetch, probe, disk, resp>>

\* the spawn_blocking of verify_login is joined
login_joined ==
  /\ threads["login"].pc = "join" /\ threads["login"].h = "login"
  /\ \E pin_ok \in BOOLEAN :
       LET th == threads["login"]
           res == verify_login(users_file, th.arg[1], pin_ok)
           msg == IF res = "NotFound" THEN <<"Unknown user">> ELSE <<"Invalid PIN">>
           a == set_login_error(queue, nsent, msg)
       IN  IF res = "Ok"
           THEN /\ threads' = [threads EXCEPT !["login"] =
                                 call(th, "login", "store_user", th.arg)]
                /\ UNCHANGED <<queue, nsent>>
           ELSE /\ threads' = [threads EXCEPT !["login"].pc = "done"]
                /\ queue' = a.queue /\ nsent' = a.nsent
  /\ UNCHANGED <<now, state, app, files, tasks, log, alive,
                 users_file, config_files, mutex, fetch, probe, disk, resp>>

\* tick.tick() returns: set_clock with the time of day
clock_tick ==
  /\ threads["clock"].pc = "tick" /\ threads["clock"].n < MaxTicks
  /\ threads' = [threads EXCEPT !["clock"] =
                   [call(@, "clock", "set_clock", <<"12:34:57">>) EXCEPT !.n = @ + 1]]
  /\ UNCHANGED <<now, state, app, files, tasks, queue, log, nsent, alive,
                 users_file, config_files, mutex, fetch, probe, disk, resp>>

InitLock ==
  /\ now = 0
  /\ state = NewAppState
  /\ app = DefaultApp
  /\ files = [u \in Users |-> NoCache]
  /\ tasks = <<>>
  /\ queue = <<>>
  /\ log = [d \in Domains |-> <<>>]
  /\ nsent = 0
  /\ alive = TRUE
  /\ users_file = <<"ana">>
  /\ config_files = [u \in Users |->
                       IF u = "ana" THEN ConfigFile(AnaConfig) ELSE Absent]
  /\ mutex = "free"
  /\ threads = IdleThreads
  /\ fetch = NoFetch
  /\ probe = NoProbe
  /\ disk = NoDisk
  /\ resp = NoResp

NextLock ==
  \/ logout_requested
  \/ refresh_requested
  \/ refresh_as_read
  \/ \E u \in {"ana", ""} : login_requested(u)
  \/ login_joined
  \/ clock_tick
  \/ \E t \in Threads : lock(t)
  \/ \E t \in Threads : access(t)
  \/ \E t \in Threads : unlock(t)
  \/ \E t \in Threads : post_setter(t)
  \/ \E t \in Threads : finish(t)
  \/ \E r \in DOMAIN tasks : news_ok(r) \/ news_err(r)

SpecLock == InitLock /\ [][NextLock]_vars

\* ------------------------------------------------------------------- C18
\* thread t holds a guard: it is inside a mutation or a snapshot of AppState
InCritical(t) == threads[t].pc \in {"held", "unlock"}

\* C18: at most one thread at a time is inside a mutation or a snapshot of
\* AppState, and it is the holder of the mutex; AppState changes only in a step
\* of the holder; and what current_user() returns is the value the field had
\* while the reader held the lock, a copy that later writes do not change.
C18_MutualExclusion ==
  /\ [](Cardinality({t \in Threads : InCritical(t)}) <= 1)
  /\ [](\A t \in Threads : InCritical(t) => mutex = t)
  /\ [][state' # state
        => \E t \in Threads :
             /\ mutex = t /\ threads[t].pc = "held" /\ threads'[t].pc = "unlock"
             /\ \A o \in Threads \ {t} : threads'[o] = threads[o]]_vars
  /\ [][\A t \in Threads :
          threads'[t].val # threads[t].val
          => /\ mutex = t /\ threads[t].pc = "held"
             /\ threads[t].op = "current_user"
             /\ threads'[t].val = <<current_user_of(state)>>]_vars

\* C18 witness: the presentation thread holds the copy "guest" that
\* current_user() returned, the login task has since stored "ana" and is inside
\* set_current_user, and the clock task waits for the lock.
C18_Witness ==
  /\ threads["ui"].pc = "handler" /\ threads["ui"].val = <<"guest">>
  /\ state.current_user = <<"ana">>
  /\ mutex = "login" /\ threads["login"].pc = "held"
  /\ threads["clock"].pc = "lock"

\* ------------------------------------------------------------------- C19
\* thread t is suspended at an await: the timer tick or the blocking-task join
Suspended(t) == threads[t].pc \in {"tick", "join"}

\* C19: no task is suspended at an await (timer tick, blocking-task join,
\* network call) while it holds the AppState lock: the holder is always a
\* thread inside its lock block, whose next steps to the release are enabled,
\* so while a network call is pending a thread that wants the lock gets it as
\* soon as the block of the holder ends.
C19_NoLockAcrossAwait ==
  /\ [](\A t \in Threads : Suspended(t) => mutex # t)
  /\ [](mutex # "free" => mutex \in Threads /\ InCritical(mutex))
  /\ [](mutex # "free" => ENABLED (access(mutex) \/ unlock(mutex)))
  /\ [](\A r \in DOMAIN tasks : \A t \in Threads :
          (AboutToPost(r) /\ threads[t].pc = "lock" /\ mutex = "free")
          => ENABLED lock(t))
  /\ [][\A t \in Threads :
          (~Suspended(t) /\ Suspended(t)') => mutex' # t]_vars

\* C19 witness: a refresh awaits its network call and the clock task awaits
\* its next tick after one set_clock, while the login task, back from its
\* join, writes AppState under the lock.
C19_Witness ==
  /\ \E r \in DOMAIN tasks : tasks[r].pc = "search"
  /\ threads["clock"].pc = "tick" /\ threads["clock"].n = 1
  /\ mutex = "login" /\ threads["login"].pc = "held"
  /\ threads["login"].op = "store_user"

\* --------------------------------------- is_fresh and age_minutes, called once
\* the clock readings, the timestamps and the TTLs of the calls: the ends of
\* the integer range, timestamps before and after the clock, negative TTLs
Times  == {0, 1000, IntMax}
Stamps == {IntMin, -1, 0, 100, 1000, 1010, IntMax}
Ttls   == {IntMin, -5, 0, TTL, IntMax}

call_is_fresh ==
  /\ ~probe.called
  /\ probe' = [probe EXCEPT !.called = TRUE, !.fresh = is_fresh(probe.ts, probe.ttl)]
  /\ UNCHANGED <<now, state, app, files, tasks, queue, log, nsent, alive,
                 users_file, config_files, mutex, threads, fetch, disk, resp>>

call_age_minutes ==
  /\ ~probe.asked
  /\ probe' = [probe EXCEPT !.asked = TRUE, !.age = age_minutes(probe.ts)]
  /\ UNCHANGED <<now, state, app, files, tasks, queue, log, nsent, alive,
                 users_file, config_files, mutex, threads, fetch, disk, resp>>

InitFresh ==
  /\ now \in Times
  /\ state = NewAppState
  /\ app = DefaultApp
  /\ files = [u \in Users |-> NoCache]
  /\ tasks = <<>>
  /\ queue = <<>>
  /\ log = [d \in Domains |-> <<>>]
  /\ nsent = 0
  /\ alive = TRUE
  /\ users_file = <<>>
  /\ config_files = [u \in Users |-> Absent]
  /\ mutex = "free"
  /\ threads = IdleThreads
  /\ fetch = NoFetch
  /\ probe \in {[NoProbe EXCEPT !.ts = ts, !.ttl = ttl] : ts \in Stamps, ttl \in Ttls}
  /\ disk = NoDisk
  /\ resp = NoResp

NextFresh == call_is_fresh \/ call_age_minutes

SpecFresh == InitFresh /\ [][NextFresh]_vars

Quote == "\""
Backslash == "\\"

escape_char(c) == IF c \in {Quote, Backslash} THEN <<Backslash, c>> ELSE <<c>>

\* mutant: the characters of a string are written as they are
RECURSIVE escape_nothing(_)
escape_nothing(str) == str

RECURSIVE escape(_)
escape(str) == IF str = <<>> THEN <<>> ELSE escape_char(Head(str)) \o escape(Tail(str))

json_string(str) == <<Quote>> \o escape(str) \o <<Quote>>

json_key(name) == json_string(<<name>>) \o <<":">>

\* "name": "value", ... for the string fields of a struct, in declaration order
RECURSIVE json_members(_, _)
json_members(names, vals) ==
  IF names = <<>> THEN <<>>
  ELSE json_key(Head(names)) \o json_string(Head(vals))
       \o (IF Len(names) > 1 THEN <<",">> ELSE <<>>)
       \o json_members(Tail(names), Tail(vals))

\* the fields of WeatherRow and of NewsRow
RowNames(dom) ==
  IF dom = "weather" THEN <<"time", "temp", "summary">>
  ELSE <<"title", "source", "published", "url">>

RowVals(dom, row) ==
  IF dom = "weather" THEN <<row.time, row.temp, row.summary>>
  ELSE <<row.title, row.source, row.published, row.url>>

row_of(dom, vals) ==
  IF dom = "weather" THEN [time |-> vals[1], temp |-> vals[2], summary |-> vals[3]]
  ELSE [title |-> vals[1], source |-> vals[2], published |-> vals[3], url |-> vals[4]]

json_row(dom, row) == <<"{">> \o json_members(RowNames(dom), RowVals(dom, row)) \o <<"}">>

RECURSIVE json_rows(_, _)
json_rows(dom, rows) ==
  IF rows = <<>> THEN <<>>
  ELSE json_row(dom, Head(rows)) \o (IF Len(rows) > 1 THEN <<",">> ELSE <<>>)
       \o json_rows(dom, Tail(rows))

\* serde_json::to_string_pretty of a WeatherCache or a NewsCache
to_string_pretty(c) ==
  <<"{">> \o json_key("ts") \o <<ToString(c.ts), ",">>
  \o (IF c.kind = "weather"
      THEN json_members(<<"units", "city">>, <<c.units, c.city>>) \o <<",">>
      ELSE <<>>)
  \o json_key("rows") \o <<"[">> \o json_rows(c.kind, c.rows) \o <<"]", "}">>

\* A parsing step gives the set of its results, a value with the text that is
\* left: one result, or none when the text does not parse.
Parsed(val, left) == [val |-> val, rest |-> left]

expect(t, sym) == IF t # <<>> /\ Head(t) = sym THEN {Parsed(sym, Tail(t))} ELSE {}

\* the characters of a string up to its closing quote, escapes undone
RECURSIVE scan_string(_, _)
scan_string(t, acc) ==
  IF t = <<>> THEN {}
  ELSE IF Head(t) = Quote THEN {Parsed(acc, Tail(t))}
  ELSE IF Head(t) = Backslash
       THEN IF Len(t) >= 2 /\ t[2] \in {Quote, Backslash}
            THEN scan_string(Tail(Tail(t)), Append(acc, t[2]))
            ELSE {}
  ELSE scan_string(Tail(t), Append(acc, Head(t)))

parse_string(t) == IF t # <<>> /\ Head(t) = Quote THEN scan_string(Tail(t), <<>>) ELSE {}

parse_key(t, name) ==
  UNION {IF a.val = <<name>> THEN expect(a.rest, ":") ELSE {} : a \in parse_string(t)}

\* the timestamps a file of the model can hold
StoreStamps == Times \cup Stamps

parse_i64(t) ==
  IF t = <<>> THEN {}
  ELSE {Parsed(n, Tail(t)) : n \in {m \in StoreStamps : ToString(m) = Head(t)}}

\* "name": "value", ... for the names, in this order
RECURSIVE parse_members(_, _, _)
parse_members(t, names, acc) ==
  IF names = <<>> THEN {Parsed(acc, t)}
  ELSE UNION {UNION {IF Len(names) = 1
                     THEN {Parsed(Append(acc, v.val), v.rest)}
                     ELSE UNION {parse_members(c.rest, Tail(names), Append(acc, v.val)) :
                                   c \in expect(v.rest, ",")} :
                       v \in parse_string(k.rest)} :
                k \in parse_key(t, Head(names))}

parse_row(t, dom) ==
  UNION {UNION {{Parsed(row_of(dom, m.val), z.rest) : z \in expect(m.rest, "}")} :
                  m \in parse_members(a.rest, RowNames(dom), <<>>)} :
           a \in expect(t, "{")}

\* the rows of a non-empty array, after its opening bracket
RECURSIVE parse_rows(_, _, _)
parse_rows(t, dom, acc) ==
  UNION {IF r.rest = <<>> THEN {}
         ELSE IF Head(r.rest) = "," THEN parse_rows(Tail(r.rest), dom, Append(acc, r.val))
         ELSE IF Head(r.rest) = "]" THEN {Parsed(Append(acc, r.val), Tail(r.rest))}
         ELSE {} :
           r \in parse_row(t, dom)}

parse_array(t, dom) ==
  UNION {IF a.rest = <<>> THEN {}
         ELSE IF Head(a.rest) = "]" THEN {Parsed(<<>>, Tail(a.rest))}
         ELSE parse_rows(a.rest, dom, <<>>) :
           a \in expect(t, "[")}

\* "ts": n, at the start of the object
parse_ts(t) ==
  UNION {UNION {UNION {{Parsed(n.val, c.rest) : c \in expect(n.rest, ",")} :
                         n \in parse_i64(k.rest)} :
                  k \in parse_key(a.rest, "ts")} :
           a \in expect(t, "{")}

\* units and city of a WeatherCache are #[serde(default)]: a file without
\* them gives empty strings
parse_params(t, dom) ==
  LET p == UNION {{Parsed(m.val, c.rest) : c \in expect(m.rest, ",")} :
                    m \in parse_members(t, <<"units", "city">>, <<>>)}
  IN  IF dom = "weather" /\ p # {} THEN p ELSE {Parsed(<<<<>>, <<>>>>, t)}

\* "rows": [...] } and the end of the text
parse_tail(t, dom) ==
  UNION {UNION {UNION {IF z.rest = <<>> THEN {b.val} ELSE {} : z \in expect(b.rest, "}")} :
                  b \in parse_array(k.rest, dom)} :
           k \in parse_key(t, "rows")}

\* serde_json::from_str::<WeatherCache> / <NewsCache>: the records the text
\* parses to, none or one
from_str(t, dom) ==
  UNION {UNION {{IF dom = "weather"
                 THEN [kind |-> "weather", ts |-> n.val, units |-> u.val[1],
                       city |-> u.val[2], rows |-> rows]
                 ELSE [kind |-> "news", ts |-> n.val, rows |-> rows] :
                   rows \in parse_tail(u.rest, dom)} :
                  u \in parse_params(n.rest, dom)} :
           n \in parse_ts(t)}

\* .ok() of a parse: the Option of its result
opt(results) == IF results = {} THEN <<>> ELSE <<CHOOSE r \in results : TRUE>>

\* ------------------------------------------- one cache file, written and read
Bytes(text) == [kind |-> "bytes", text |-> text]

\* mutant: a file that gives no record is read as an empty record
load_from_or_default(file, dom) ==
  IF file.kind = "bytes" /\ from_str(file.text, dom) # {}
  THEN opt(from_str(file.text, dom))
  ELSE IF dom = "weather" THEN <<WeatherCache(0, <<>>, <<"C">>, Bucharest)>>
  ELSE <<NewsCache(0, <<>>)>>

\* fs::read_to_string(p).ok()? then serde_json::from_str(&s).ok()
load_from(file, dom) ==
  IF file.kind = "bytes" THEN opt(from_str(file.text, dom)) ELSE <<>>

\* save_*_for builds the struct and its text; fs::write creates the file,
\* truncating it; ok = FALSE: the directory or the file cannot be opened
fs_create(ok) ==
  /\ disk.wpc = "idle"
  /\ disk' = [disk EXCEPT
                !.text = to_string_pretty(disk.w[1]),
                !.was = load_from(disk.file, disk.dom),
                !.file = IF ok THEN Bytes(<<>>) ELSE @,
                !.wpc = IF ok THEN "created" ELSE "failed",
                !.res = IF ok THEN "" ELSE "Err"]
  /\ UNCHANGED <<now, state, app, files, tasks, queue, log, nsent, alive,
                 users_file, config_files, mutex, threads, fetch, probe, resp>>

\* write_all: one write call takes the first half of the text or all that is
\* left; ok = FALSE: the call fails and fs::write returns the error
fs_write(all, ok) ==
  /\ disk.wpc = "created"
  /\ LET have == Len(disk.file.text)
         upto == IF all \/ have > 0 THEN Len(disk.text) ELSE Len(disk.text) \div 2
     IN  disk' = IF ok
                 THEN [disk EXCEPT !.file = Bytes(SubSeq(disk.text, 1, upto)),
                                   !.wpc = IF upto = Len(disk.text) THEN "done" ELSE @,
                                   !.res = IF upto = Len(disk.text) THEN "Ok" ELSE @]
                 ELSE [disk EXCEPT !.wpc = "failed", !.res = "Err"]
  /\ UNCHANGED <<now, state, app, files, tasks, queue, log, nsent, alive,
                 users_file, config_files, mutex, threads, fetch, probe, resp>>

\* load_weather_for / load_news_for on another thread, at any moment
load_file ==
  /\ disk.rpc = "idle"
  /\ disk' = [disk EXCEPT !.rpc = "done", !.rat = disk.wpc,
                          !.got = load_from(disk.file, disk.dom)]
  /\ UNCHANGED <<now, state, app, files, tasks, queue, log, nsent, alive,
                 users_file, config_files, mutex, threads, fetch, probe, resp>>

\* the strings of a row: separators, a quote, a backslash at the end
Strs == {<<"a", ",">>, <<Quote, "}", Backslash>>}

StoreRows(dom) ==
  UNION {[1..n -> {row_of(dom, v) : v \in [1..Len(RowNames(dom)) -> Strs]}] :
           n \in 0..MaxStoreRows}

\* the structs save_weather_for and save_news_for can build at the clock `t`
StoreRecords(t) ==
  {WeatherCache(t, rows, <<"C">>, Cluj) : rows \in StoreRows("weather")}
  \cup {NewsCache(t, rows) : rows \in StoreRows("news")}

\* what an earlier run left in the file: a record in today's format, a weather
\* record of the format without units and city, not JSON, an empty file
OldFiles(dom) ==
  {[kind |-> "missing"], [kind |-> "denied"], Bytes(<<>>), Bytes(<<"{", "oops">>),
   Bytes(to_string_pretty(IF dom = "weather"
                          THEN WeatherCache(0, <<>>, <<"F">>, Bucharest)
                          ELSE NewsCache(0, <<>>)))}
  \cup (IF dom = "weather"
        THEN {Bytes(<<"{">> \o json_key("ts") \o <<"0", ",">> \o json_key("rows")
                    \o <<"[", "]", "}">>)}
        ELSE {})

InitStore ==
  /\ now = 1000
  /\ state = NewAppState
  /\ app = DefaultApp
  /\ files = [u \in Users |-> NoCache]
  /\ tasks = <<>>
  /\ queue = <<>>
  /\ log = [d \in Domains |-> <<>>]
  /\ nsent = 0
  /\ alive = TRUE
  /\ users_file = <<>>
  /\ config_files = [u \in Users |-> Absent]
  /\ mutex = "free"
  /\ threads = IdleThreads
  /\ fetch = NoFetch
  /\ probe = NoProbe
  /\ \E w \in StoreRecords(now) : \E f \in OldFiles(w.kind) :
       disk = [NoDisk EXCEPT !.dom = w.kind, !.w = <<w>>, !.file = f]
  /\ resp = NoResp

NextStore ==
  \/ \E ok \in BOOLEAN : fs_create(ok)
  \/ \E all, ok \in BOOLEAN : fs_write(all, ok)
  \/ load_file

SpecStore == InitStore /\ [][NextStore]_vars

C22_AtomicReplace ==
  (disk.rpc = "done" /\ disk.rat = "created" /\ disk.was # <<>>)
    => disk.got \in {disk.was, disk.w}

\* ------------------------------------------------------------------- C23
\* A cache file an earlier run left behind that holds no record: missing,
\* unreadable, empty, not JSON, the first half of a record.
HalfText(dom) ==
  LET t == to_string_pretty(IF dom = "weather" THEN WeatherCache(0, <<>>, <<"C">>, Bucharest)
                            ELSE NewsCache(0, <<>>))
  IN  SubSeq(t, 1, Len(t) \div 2)

BadFiles(dom) ==
  {[kind |-> "missing"], [kind |-> "denied"], Bytes(<<>>), Bytes(<<"{", "oops">>),
   Bytes(HalfText(dom))}

\* what load_*_for makes of the file: the record, or no cache
file_record(file, dom) ==
  LET o == load_from(file, dom)
  IN  IF o # <<>> THEN o[1] ELSE IF file.kind = "missing" THEN Absent ELSE Corrupt

\* the guest's cache file of one domain is what an earlier run left
InitRead ==
  /\ now = 0
  /\ state = NewAppState
  /\ app = DefaultApp
  /\ \E d \in Domains : \E f \in BadFiles(d) \cup OldFiles(d) :
       /\ disk = [NoDisk EXCEPT !.dom = d, !.file = f]
       /\ files = [u \in Users |->
                     IF u = "guest" THEN [NoCache EXCEPT ![d] = file_record(f, d)]
                     ELSE NoCache]
  /\ tasks = <<>>
  /\ queue = <<>>
  /\ log = [d \in Domains |-> <<>>]
  /\ nsent = 0
  /\ alive = TRUE
  /\ users_file = <<>>
  /\ config_files = [u \in Users |-> Absent]
  /\ mutex = "free"
  /\ threads = IdleThreads
  /\ fetch = NoFetch
  /\ probe = NoProbe
  /\ resp = NoResp

NextRead ==
  \/ Len(tasks) < MaxReadRefresh /\ on_refresh_weather
  \/ Len(tasks) < MaxReadRefresh /\ on_refresh_news
  \/ Work

SpecRead == InitRead /\ [][NextRead]_vars

\* a refresh handler of the domain has run in this step
refreshed(dom) == Len(tasks') = Len(tasks) + 1 /\ tasks'[Len(tasks')].dom = dom

loading(a, dom) ==
  IF dom = "weather" THEN [a EXCEPT !.weather_status = Loading]
  ELSE [a EXCEPT !.news_status = Loading]

\* C23: a refresh over a cache file that is missing, unreadable or corrupt
\* gets None from the store: the handler shows the loading status and nothing
\* else, queues nothing, leaves the file alone and starts the network fetch,
\* the same for each of these files.
C23_ReadNeverFails ==
  [][\A d \in Domains :
       (/\ refreshed(d)
        /\ disk.dom = d /\ disk.file \in BadFiles(d)
        /\ files[current_user][d] = file_record(disk.file, d))
         => /\ app' = loading(app, d)
            /\ ~tasks'[Len(tasks')].hit
            /\ tasks'[Len(tasks')].pc \in {"geocode", "search"}
            /\ queue' = queue
            /\ files' = files]_vars

\* C23 witness: the refresh over a file that is not JSON has started its
\* fetch, with the loading status in the window.
C23_Witness ==
  /\ disk.dom = "weather" /\ disk.file = Bytes(<<"{", "oops">>)
  /\ files["guest"].weather = Corrupt
  /\ Len(tasks) = 1 /\ tasks[1].dom = "weather" /\ tasks[1].pc = "geocode"
  /\ ~tasks[1].hit
  /\ app.weather_status = Loading /\ app.weather_items = <<>>

\* ------------------------------------------------------------------- C24
\* the window after the render of a successful fetch of the task
rendered(a, t) ==
  IF t.dom = "weather"
  THEN [a EXCEPT !.weather_items = weather_items_of(t.rows),
                 !.weather_status = weather_updated_status(t.use_celsius)]
  ELSE [a EXCEPT !.news_items = news_items_of(t.rows),
                 !.news_status = news_updated_status]

\* the task's fetch has returned rows in this step and its save has failed
save_failed(r) ==
  /\ tasks[r].pc \in {"forecast", "search"}
  /\ tasks'[r].pc = "posted" /\ tasks'[r].saved = "err"

\* the event loop runs the closure of the task in this step
closure_run(r) ==
  /\ queue # <<>> /\ queue' = Tail(queue)
  /\ queue[1].dom # "acct" /\ queue[1].rid = r /\ queue[1].kind # "label"

\* C24: when the fetch returns rows and the cache write returns an error,
\* the task still queues the render of these rows, and the render shows them
\* with the status of a successful refresh; the file is left as it was.
C24_WriteFailureIgnored ==
  [][\A r \in DOMAIN tasks :
       /\ save_failed(r)
            => /\ files' = files
               /\ queue' = ui(queue, Closure(nsent + 1, r, tasks[r].dom, "ok", <<>>,
                                             tasks'[r].rows, tasks[r].use_celsius))
       /\ (closure_run(r) /\ tasks[r].saved = "err")
            => app' = rendered(app, tasks[r])]_vars

\* C24 witness: the forecast rows of a refresh whose save failed are in the
\* window under the status "Updated", and the cache file is still missing.
C24_Witness ==
  /\ Len(tasks) >= 1
  /\ tasks[1].dom = "weather" /\ tasks[1].saved = "err" /\ tasks[1].pc = "done"
  /\ tasks[1].rows # <<>>
  /\ app.weather_items = weather_items_of(tasks[1].rows)
  /\ app.weather_status = weather_updated_status(tasks[1].use_celsius)
  /\ files["guest"].weather = Absent

\* ------------------------------------------------------------------- C25
\* the kinds of the closures the weather task has queued so far, run or not
Sent(r) ==
  {queue[i].kind : i \in {j \in DOMAIN queue : queue[j].dom = "weather" /\ queue[j].rid = r}}
  \cup ({log.weather[i].kind : i \in {j \in DOMAIN log.weather : log.weather[j].rid = r}}
        \ {"miss", "cache"})

\* C25: the step in which the geocoder of a weather refresh finds nothing
\* writes no file and ends the task's work; from then on the task never
\* enters the forecast stage, queues nothing but the "City not found" status
\* and never saves: a file changes only in the step of another task.
C25_NotFoundShortCircuits ==
  [][\A r \in DOMAIN tasks :
       /\ (tasks[r].pc = "geocode" /\ "notfound" \in Sent(r)')
            => files' = files /\ tasks'[r].pc = "posted"
       /\ "notfound" \in Sent(r)
            => /\ tasks'[r].pc \in {"posted", "done"}
               /\ tasks'[r].saved = "no" /\ tasks'[r].rows = <<>>
               /\ Sent(r)' = {"notfound"}
               /\ files' # files
                    => \E r2 \in DOMAIN tasks \ {r} : tasks'[r2].saved # tasks[r2].saved]_vars

\* C25 witness: a weather refresh has ended with "City not found", with no
\* record saved and the cache file still missing.
C25_Witness ==
  /\ Len(tasks) >= 1
  /\ tasks[1].dom = "weather" /\ tasks[1].pc = "done" /\ tasks[1].saved = "no"
  /\ Sent(1) = {"notfound"}
  /\ app.weather_status = not_found_status(tasks[1].city)
  /\ files["guest"].weather = Absent

\* ------------------------------------------------- the forecast stage's window
\* A timestamp text of hourly.time, by its form: "<date>T<hour>:00", a text
\* with no 'T' in it, or a text whose part after the 'T' is no time of day.
Stamp(day, hour) == [form |-> "ok", day |-> day, hour |-> hour]
NoT == [form |-> "noT", day |-> 0, hour |-> 0]
BadClock == [form |-> "badclock", day |-> 0, hour |-> 0]

\* the hourly series from hour 0 of the first day: entry i is hour i - 1
Hourly(n) == [i \in 1..n |-> Stamp((i - 1) \div 24, (i - 1) % 24)]

\* chrono::NaiveDateTime::parse_from_str(t, "%Y-%m-%dT%H:%M"), in hours
parse_from_str(t) == IF t.form = "ok" THEN <<t.day * 24 + t.hour>> ELSE <<>>

\* the labels of the emitted entries
NowLabel == [label |-> "Now", hour |-> 0]
ClockLabel(hour) == [label |-> "clock", hour |-> hour]
MidnightLabel == [label |-> "00:00", hour |-> 0]
RawLabel == [label |-> "raw", hour |-> 0]

\* t.split('T').nth(1).unwrap_or("00:00")
after_T(t) ==
  IF t.form = "ok" THEN ClockLabel(t.hour)
  ELSE IF t.form = "noT" THEN MidnightLabel
  ELSE RawLabel

\* the loop that finds the current hour: the first entry that parses and is
\* not before `at`, as a 0-based index; 0 when the loop ends without a break
RECURSIVE find_start(_, _, _)
find_start(times, i, at) ==
  IF i > Len(times) THEN 0
  ELSE IF parse_from_str(times[i]) # <<>> /\ parse_from_str(times[i])[1] >= at THEN i - 1
  ELSE find_start(times, i + 1, at)

\* the display times of the entries fetch_next_hours_at emits
window(times, at, count) ==
  LET start_idx == find_start(times, 1, at)
      end == Min(start_idx + count, Len(times))
  IN  [k \in 1..(end - start_idx) |->
         IF k = 1 THEN NowLabel ELSE after_T(times[start_idx + k])]

\* the series of a response: hourly, with at most one entry that is no
\* timestamp
Series ==
  UNION {{Hourly(n)}
         \cup {[Hourly(n) EXCEPT ![b] = g] : b \in {1, n} \cap (1..n), g \in {NoT, BadClock}} :
           n \in 0..MaxSeries}

InitHours ==
  /\ now = 0
  /\ state = NewAppState
  /\ app = DefaultApp
  /\ files = [u \in Users |-> NoCache]
  /\ tasks = <<>>
  /\ queue = <<>>
  /\ log = [d \in Domains |-> <<>>]
  /\ nsent = 0
  /\ alive = TRUE
  /\ users_file = <<>>
  /\ config_files = [u \in Users |-> Absent]
  /\ mutex = "free"
  /\ threads = IdleThreads
  /\ fetch = NoFetch
  /\ probe = NoProbe
  /\ disk = NoDisk
  /\ \E times \in Series, at \in 0..MaxSeries, count \in 0..MaxWindow :
       resp = [svc |-> "forecast", called |-> FALSE, times |-> times, at |-> at,
               count |-> count, out |-> <<>>]

\* fetch_next_hours_at over the response, at the local time `at`
call_fetch_next_hours_at ==
  /\ resp.svc = "forecast" /\ ~resp.called
  /\ resp' = [resp EXCEPT !.called = TRUE,
                          !.out = window(resp.times, resp.at, resp.count)]
  /\ UNCHANGED <<now, state, app, files, tasks, queue, log, nsent, alive,
                 users_file, config_files, mutex, threads, fetch, probe, disk>>

NextHours == call_fetch_next_hours_at

SpecHours == InitHours /\ [][NextHours]_vars

\* ------------------------------------------------------------------- C26
\* the entries with a timestamp that is not before `at`
NotBefore(times, at) ==
  {i \in DOMAIN times : parse_from_str(times[i]) # <<>> /\ parse_from_str(times[i])[1] >= at}

\* the 1-based index the window is to start at: the first such entry, or the
\* first entry of the series
FirstHour(times, at) ==
  IF NotBefore(times, at) = {} THEN 1
  ELSE CHOOSE i \in NotBefore(times, at) : \A j \in NotBefore(times, at) : i <= j

\* C26: the forecast stage emits the N consecutive entries of the series
\* from the first entry that is not before now (from the first entry if there
\* is none), in source order, the first labelled "Now" and every later one
\* with the hour-of-day part of its timestamp.
C26_HourWindow ==
  resp.svc = "forecast" /\ resp.called
    => /\ Len(resp.out) = resp.count
       /\ \A k \in 1..resp.count :
            resp.out[k] = IF k = 1 THEN NowLabel
                          ELSE after_T(resp.times[FirstHour(resp.times, resp.at) + k - 1])

\* what the stage does emit: the entries from that index to the end of the
\* series, N of them at most
C26_WindowToEnd ==
  resp.svc = "forecast" /\ resp.called
    => LET first == FirstHour(resp.times, resp.at)
           n == Min(resp.count, Len(resp.times) - (first - 1))
       IN  /\ Len(resp.out) = n
           /\ \A k \in 1..n :
                resp.out[k] = IF k = 1 THEN NowLabel
                              ELSE after_T(resp.times[first + k - 1])

\* the example of the specification: 24 entries from hour 0, now at hour 5,
\* 8 entries asked for, gives "Now" and the hours 6 to 12
C26_Example ==
  /\ resp.svc = "forecast" /\ resp.called
  /\ resp.times = Hourly(24) /\ resp.at = 5 /\ resp.count = 8
  /\ resp.out = <<NowLabel>> \o [k \in 1..7 |-> ClockLabel(5 + k)]

\* the same series late in the day: now at hour 20, 8 entries asked for, gives
\* "Now" and the hours 21 to 23, four entries
C26_LateHour ==
  /\ resp.svc = "forecast" /\ resp.called
  /\ resp.times = Hourly(24) /\ resp.at = 20 /\ resp.count = 8
  /\ resp.out = <<NowLabel, ClockLabel(21), ClockLabel(22), ClockLabel(23)>>

\* ------------------------------------------------------- the geocoding stage
\* the request asks the search for one result (count=1)
Count == 1

GeoNames == {"Paris", "Cluj-Napoca", "X"}
GeoRegions == {"", "Cluj County"}
GeoCountries == {"", "France", "Romania"}

\* the ResultItems a search response can hold
ResultItems ==
  [name : GeoNames, admin1 : GeoRegions, country : GeoCountries,
   latitude : {45, 47}, longitude : {2, 24}]

\* what the search endpoint answers: a transport or status error, a body that
\* is no SearchResp, a body without results, or a list of up to Count results
SearchResponses ==
  {[status |-> "Http", results |-> <<>>], [status |-> "Json", results |-> <<>>]}
  \cup {[status |-> "ok", results |-> <<>>], [status |-> "ok", results |-> <<<<>>>>]}
  \cup {[status |-> "ok", results |-> <<v>>] :
          v \in UNION {[1..n -> ResultItems] : n \in 1..Count}}

\* fetch_coords over the response: Err(e), or Ok((lat, lon, label)); the
\* results are an Option of a list and v.pop() takes the last of the list
fetch_coords(r) ==
  IF r.status # "ok" THEN [ok |-> FALSE, err |-> r.status]
  ELSE IF r.results = <<>> \/ r.results[1] = <<>> THEN [ok |-> FALSE, err |-> "NotFound"]
  ELSE LET v == r.results[1]
           item == v[Len(v)]
       IN  [ok |-> TRUE, lat |-> item.latitude, lon |-> item.longitude,
            label |-> geocode_label(item)]

InitGeo ==
  /\ now = 0
  /\ state = NewAppState
  /\ app = DefaultApp
  /\ files = [u \in Users |-> NoCache]
  /\ tasks = <<>>
  /\ queue = <<>>
  /\ log = [d \in Domains |-> <<>>]
  /\ nsent = 0
  /\ alive = TRUE
  /\ users_file = <<>>
  /\ config_files = [u \in Users |-> Absent]
  /\ mutex = "free"
  /\ threads = IdleThreads
  /\ fetch = NoFetch
  /\ probe = NoProbe
  /\ disk = NoDisk
  /\ \E r \in SearchResponses :
       resp = [svc |-> "geocode", called |-> FALSE, body |-> r, out |-> <<>>]

call_fetch_coords ==
  /\ resp.svc = "geocode" /\ ~resp.called
  /\ resp' = [resp EXCEPT !.called = TRUE, !.out = <<fetch_coords(resp.body)>>]
  /\ UNCHANGED <<now, state, app, files, tasks, queue, log, nsent, alive,
                 users_file, config_files, mutex, threads, fetch, probe, disk>>

NextGeo == call_fetch_coords

SpecGeo == InitGeo /\ [][NextGeo]_vars

\* ------------------------------------------------------------------- C27
EmDash == "<U+2014>"

\* the label the specification composes for a result
SpecLabel(item) ==
  IF item.country = "" THEN <<item.name>>
  ELSE IF item.admin1 = "" THEN <<item.name, " (", item.country, ")">>
  ELSE <<item.name, " ", EmDash, " ", item.admin1, ", ", item.country>>

\* the geocoder has answered Ok for a response with results
Geocoded ==
  /\ resp.svc = "geocode" /\ resp.called
  /\ resp.body.status = "ok" /\ resp.body.results # <<>> /\ resp.body.results[1] # <<>>

\* C27: the geocoder takes the first result of the search and labels it with
\* the name alone when the country is empty, "name (country)" when the
\* admin region is empty and "name <em dash> admin-region, country"
\* otherwise.
C27_GeocodeLabel ==
  Geocoded => /\ resp.out[1].ok
              /\ resp.out[1].label = SpecLabel(resp.body.results[1][1])

\* the first two formats, and the choice of the result, are as specified
C27_ShortFormats ==
  Geocoded => LET item == resp.body.results[1][1]
              IN  /\ resp.out[1].ok
                  /\ resp.out[1].lat = item.latitude /\ resp.out[1].lon = item.longitude
                  /\ (item.country = "" \/ item.admin1 = "")
                       => resp.out[1].label = SpecLabel(item)

\* the label the geocoder returns for Cluj-Napoca, Cluj County, Romania
C27_ClujLabel ==
  /\ Geocoded
  /\ resp.body.results[1][1].name = "Cluj-Napoca"
  /\ resp.out[1].label = <<"Cluj-Napoca", " ", "<U+00E2><U+20AC><U+201D>", " ",
                           "Cluj County", ", ", "Romania">>

\* ------------------------------------------------------ the credential service
Known(uf, username) == \E i \in DOMAIN uf : uf[i] = username

\* mutant: register_user adds the record without looking for the name
register_user_unchecked(uf, username, rd, wr) ==
  IF ~rd \/ ~wr THEN [res |-> "Io", uf |-> uf]
  ELSE [res |-> "Ok", uf |-> Append(uf, username)]

\* LocalAuth::register_user: the result and users.json after the call;
\* rd: load() can read the file, wr: save() can write it
register_user(uf, username, rd, wr) ==
  IF ~rd THEN [res |-> "Io", uf |-> uf]
  ELSE IF Known(uf, username) THEN [res |-> "AlreadyExists", uf |-> uf]
  ELSE IF ~wr THEN [res |-> "Io", uf |-> uf]
  ELSE [res |-> "Ok", uf |-> Append(uf, username)]

\* the result of LocalAuth::delete_user
delete_user_result(uf, username, io) ==
  IF ~Known(uf, username) THEN "NotFound" ELSE IF io THEN "Ok" ELSE "Io"

\* on_register_requested: the error text is cleared and the task is spawned
register_requested(u) ==
  /\ threads["ui"].pc = "idle" /\ threads["login"].pc = "none"
  /\ LET a == set_login_error(queue, nsent, <<>>) IN
       queue' = a.queue /\ nsent' = a.nsent
  /\ threads' = [threads EXCEPT !["login"] = [@ EXCEPT !.pc = "join", !.h = "register",
                                                        !.arg = <<u>>]]
  /\ UNCHANGED <<now, state, app, files, tasks, log, alive,
                 users_file, config_files, mutex, fetch, probe, disk, resp>>

\* the spawn_blocking of register_user is joined
register_joined ==
  /\ threads["login"].pc = "join" /\ threads["login"].h = "register"
  /\ \E rd, wr \in BOOLEAN :
       LET th == threads["login"]
           r == register_user(users_file, th.arg[1], rd, wr)
           msg == IF r.res = "AlreadyExists" THEN <<"User already exists">>
                  ELSE <<"Register error: ", r.res>>
           a == set_login_error(queue, nsent, msg)
       IN  /\ users_file' = r.uf
           /\ IF r.res = "Ok"
              THEN /\ threads' = [threads EXCEPT !["login"] =
                                    call(th, "register", "store_user", th.arg)]
                   /\ UNCHANGED <<queue, nsent>>
              ELSE /\ threads' = [threads EXCEPT !["login"].pc = "done"]
                   /\ queue' = a.queue /\ nsent' = a.nsent
  /\ UNCHANGED <<now, state, app, files, tasks, log, alive,
                 config_files, mutex, fetch, probe, disk, resp>>

InitCred ==
  /\ now = 0
  /\ state = NewAppState
  /\ users_file \in {<<>>, <<"ana">>}
  /\ app = [DefaultApp EXCEPT !.users = users_file]
  /\ files = [u \in Users |-> NoCache]
  /\ tasks = <<>>
  /\ queue = <<>>
  /\ log = [d \in Domains |-> <<>>]
  /\ nsent = 0
  /\ alive = TRUE
  /\ config_files = [u \in Users |-> Absent]
  /\ mutex = "free"
  /\ threads = IdleThreads
  /\ fetch = NoFetch
  /\ probe = NoProbe
  /\ disk = NoDisk
  /\ resp = NoResp

\* One register or login task and account deletions beside it; the deletion
\* handler takes the AppState mutex, so it runs while no guard exists.
NextCred ==
  \/ \E u \in {"ana", ""} : register_requested(u)
  \/ \E u \in {"ana", ""} : login_requested(u)
  \/ register_joined
  \/ login_joined
  \/ \E t \in Threads : lock(t)
  \/ \E t \in Threads : access(t)
  \/ \E t \in Threads : unlock(t)
  \/ \E t \in Threads : post_setter(t)
  \/ \E t \in Threads : finish(t)
  \/ \E u \in {"ana", ""} :
       nsent < MaxCredSent /\ can_lock(mutex) /\ on_delete_account(u)

SpecCred == InitCred /\ [][NextCred]_vars

\* ------------------------------------------------------------------- C28
\* the register or login task ends with an error in this step
task_failed == threads["login"].pc = "join" /\ threads'["login"].pc = "done"

\* C28: register of a name that is stored returns AlreadyExists, verify and
\* delete of a name that is not stored return NotFound, and the stored list
\* is the same after the call; a register or login task that ends with an
\* error leaves AppState as it was.
C28_ErrorsLeaveStore ==
  [][/\ \A u \in Users, wr \in BOOLEAN :
          IF Known(users_file, u)
          THEN register_user(users_file, u, TRUE, wr) =
                 [res |-> "AlreadyExists", uf |-> users_file]
          ELSE /\ \A pin_ok \in BOOLEAN : verify_login(users_file, u, pin_ok) = "NotFound"
               /\ delete_user_result(users_file, u, wr) = "NotFound"
               /\ delete_user(users_file, u, wr) = users_file
     /\ (task_failed /\ threads["login"].h = "login") => users_file' = users_file
     /\ (task_failed /\ threads["login"].h = "register"
           /\ Known(users_file, threads["login"].arg[1])) => users_file' = users_file
     /\ \A u \in Users :
          (on_delete_account(u) /\ ~Known(users_file, u)) => users_file' = users_file
     /\ task_failed => state' = state]_vars

\* C28 witness: the registration of the stored name "ana" has ended with
\* "User already exists", with the list and AppState as they were.
C28_Witness ==
  /\ threads["login"].pc = "done" /\ threads["login"].h = "register"
  /\ threads["login"].arg = <<"ana">>
  /\ users_file = <<"ana">>
  /\ state = NewAppState
  /\ \E i \in DOMAIN queue :
       queue[i].kind = "login_error" /\ queue[i].text = <<"User already exists">>

\* ------------------------------------------------------------------- C29
\* C29: the rows a completion closure renders are those of a refresh that was
\* triggered under the user who is current when the closure runs.
C29_RowsOfCurrentUser ==
  [][\A r \in DOMAIN tasks :
       (alive /\ closure_run(r) /\ queue[1].kind = "ok")
         => tasks[r].user = current_user]_vars

\* the rows of a refresh triggered under ana are in the weather view while
\* nobody is logged in and nothing is queued
C29_StaleRows ==
  /\ state.current_user = <<>> /\ ~state.is_logged_in /\ queue = <<>>
  /\ \E r \in DOMAIN tasks :
       /\ tasks[r].dom = "weather" /\ tasks[r].user = "ana" /\ tasks[r].pc = "done"
       /\ tasks[r].rows # <<>>
       /\ app.weather_items = weather_items_of(tasks[r].rows)

\* ------------------------------------------------------------------- C30
\* a register or login task for u has gone past the Ok arm of its match: its
\* register_user or verify_login returned Ok
Verified(u) == threads["login"].arg = <<u>> /\ threads["login"].op # ""

\* C30: AppState is logged in as u only after a verify or a register of u
\* that returned ok.
C30_SessionAuthenticated ==
  \A u \in Users : (state.is_logged_in /\ state.current_user = <<u>>) => Verified(u)

\* the session of ana is open, with ana's settings in the window and ana's
\* refreshes started, and no login or register task has ever run
C30_SwitchedIn ==
  /\ state.is_logged_in /\ state.current_user = <<"ana">>
  /\ threads["login"].pc = "none"
  /\ app.weather_city = AnaConfig.city /\ app.news_topic = AnaConfig.news_topic
  /\ \E r \in DOMAIN tasks : tasks[r].user = "ana"

\* --------------------------------------------- sessions: login, logout, pages
\* on_nav_selected: set_page on the presentation thread
nav_selected(page) ==
  /\ threads["ui"].pc = "idle" /\ can_lock(mutex)
  /\ nsent < MaxNavSent
  /\ LET a == set_page(state, queue, nsent, page)
     IN  state' = a.state /\ queue' = a.queue /\ nsent' = a.nsent
  /\ UNCHANGED <<now, app, files, tasks, log, alive,
                 users_file, config_files, mutex, threads, fetch, probe, disk, resp>>

\* A login or register task beside the logout and navigation handlers; the
\* event loop runs a queued closure when the presentation thread is in no
\* handler.
NextSession ==
  \/ logout_requested
  \/ \E page \in Pages : nav_selected(page)
  \/ \E u \in {"ana", ""} : login_requested(u)
  \/ \E u \in {"ana", ""} : register_requested(u)
  \/ login_joined
  \/ register_joined
  \/ \E t \in Threads : lock(t)
  \/ \E t \in Threads : access(t)
  \/ \E t \in Threads : unlock(t)
  \/ \E t \in Threads : post_setter(t)
  \/ \E t \in Threads : finish(t)
  \/ threads["ui"].pc = "idle" /\ event_loop_run

SpecSession == InitLock /\ [][NextSession]_vars

\* ------------------------------------------------------------------- C31
\* no closure is queued, the presentation thread is in no handler and no
\* login or register task is running
Quiescent ==
  /\ queue = <<>>
  /\ threads["ui"].pc = "idle"
  /\ threads["login"].pc \in {"none", "done"}

\* C31: whenever nothing is pending, the window's is_logged_in and
\* current_page are those of AppState.
C31_StateAgreesWithUI ==
  Quiescent => /\ app.is_logged_in = state.is_logged_in
               /\ app.current_page = state.current_page

\* after a login the window is logged in and AppState is not
C31_LoggedInWindow ==
  /\ Quiescent
  /\ state.current_user = <<"ana">> /\ ~state.is_logged_in
  /\ app.is_logged_in /\ app.current_user = "ana"

\* after a navigation to News and a logout the window is on Weather and
\* AppState on News
C31_PageApart ==
  /\ Quiescent
  /\ state.current_page = "News" /\ app.current_page = "Weather"

\* ------------------------------------------------------------------- C32
\* C32: once the queue has drained the window is never logged in while
\* AppState has no current user.
C32_LogoutWins ==
  Quiescent => ~(app.is_logged_in /\ state.current_user = <<>>)

\* a logout ran while a login was completing: the logout's closures were
\* presented first, the login's last, and the window is logged in as nobody
C32_LoggedInAsNobody ==
  /\ Quiescent
  /\ threads["ui"].n > 0 /\ threads["login"].pc = "done"
  /\ state.current_user = <<>> /\ ~state.is_logged_in
  /\ app.is_logged_in /\ app.current_user = ""

\* ------------------------------------------------------------------- C33
\* Account events, and edits of the city and of the units while the weather
\* refresh a switch started waits for its forecast.
Fetching == \E r \in TasksOf("weather") : tasks[r].pc = "forecast"

NextSnap ==
  \/ NextAcct
  \/ Fetching /\ edit_settings /\ app'.news_topic = app.news_topic

SpecSnap == InitAcct /\ [][NextSnap]_vars

\* C33: a weather refresh takes its user, city and units at its trigger and
\* keeps them; every write of a weather record is the save of one refresh,
\* under the user of that refresh, with its units, its city in lowercase and
\* the rows fetched for them.
C33_ConsistentSnapshot ==
  [][/\ \A r \in DOMAIN tasks' \ DOMAIN tasks :
          tasks'[r].dom = "weather"
          => /\ tasks'[r].user = current_user_of(state')
             /\ tasks'[r].city = app'.weather_city
             /\ tasks'[r].use_celsius = app'.use_celsius
     /\ \A r \in DOMAIN tasks :
          /\ tasks'[r].user = tasks[r].user
          /\ tasks'[r].city = tasks[r].city
          /\ tasks'[r].use_celsius = tasks[r].use_celsius
     /\ \A u \in Users :
          files'[u].weather # files[u].weather
          => \E r \in DOMAIN tasks :
               /\ tasks[r].dom = "weather" /\ tasks[r].user = u
               /\ tasks[r].saved = "no" /\ tasks'[r].saved = "ok"
               /\ files'[u].weather =
                    [kind |-> "weather", ts |-> now,
                     units |-> IF tasks[r].use_celsius THEN "C" ELSE "F",
                     city |-> to_lowercase(tasks[r].city),
                     rows |-> ForecastRows(Len(tasks'[r].rows), tasks[r].use_celsius, now)]]_vars

\* C33 witness: ana's refresh saved its rows after the deletion of ana had
\* logged her out and after the units of the window had been changed; the
\* record is under ana with the units and the city of the trigger.
C33_Witness ==
  \E i, j \in DOMAIN queue :
    /\ i < j /\ queue[i].kind = "clear" /\ queue[j].kind = "ok" /\ queue[j].dom = "weather"
    /\ LET t == tasks[queue[j].rid]
       IN  /\ t.user = "ana" /\ t.saved = "ok" /\ t.rows # <<>>
           /\ state.current_user = <<>>
           /\ app.use_celsius # t.use_celsius
           /\ files["ana"].weather =
                WeatherCache(t.ts, t.rows, Want(t.use_celsius), t.city)
           /\ files["guest"].weather = Absent

\* ------------------------------------------------------------------- C34
\* the number of times the offline prefix occurs in a status text
Prefixes(s) ==
  Cardinality({i \in 1..(Len(s) - Len(OfflinePrefix) + 1) :
                 SubSeq(s, i, i + Len(OfflinePrefix) - 1) = OfflinePrefix})

\* C34: the status of a domain carries the offline prefix at most once.
C34_OfflineOnce ==
  \A d \in Domains : Prefixes(Status(d)) <= 1

\* C34 witness: two news refreshes rendered the cache, the failure of one
\* degraded the status and the failure of the other has been presented.
C34_Witness ==
  /\ Len(log["news"]) = 4
  /\ log["news"][1].kind = "cache" /\ log["news"][2].kind = "cache"
  /\ log["news"][3].kind = "fail" /\ log["news"][4].kind = "fail"
  /\ starts_with(app.news_status, <<"Failed to load: ">>)
  /\ Prefixes(app.news_status) = 0

====
